---- MODULE Spec2Model ----
(***************************************************************************)
(* Render-job orchestration of the compose engine: the job record store    *)
(* (utils/job_queue.py), the render semaphore (dependencies.py) and the    *)
(* four background pipelines that write job records (routers/render.py,    *)
(* routers/auto_compose.py) around VideoRenderer.render.                   *)
(*                                                                         *)
(* A run is one execution of a pipeline function for one submission.  The  *)
(* event loop interleaves runs at their awaits.  With the Redis client a   *)
(* store read (client.get) and a store write (client.set) are separate     *)
(* awaits, so update_job is two steps: the read is taken together with the *)
(* local work that precedes it (local work touches no shared state), the   *)
(* write is the step WriteBack.                                            *)
(*                                                                         *)
(* The cut planner of the renderer, BeatSyncEngine.calculate_cuts          *)
(* (services/beat_sync.py), is a pure function and is modelled as one.     *)
(***************************************************************************)
EXTENDS Integers, Sequences, FiniteSets, TLC

\* ------------------------------------------------------------------ bounds
MaxImages == 4
MaxDeletes == 1
PollCap == 2
MaxCutImages == 3
MaxDuration == 7
MaxBeats == 3
MaxPlanImages == 9
MaxAudio == 31
MaxRequested == 31
MaxLines == 6
MaxVideo == 300
MaxDownloads == 3
MaxCandidates == 13
MaxRenders == 2

\* ------------------------------------------------------- program constants
\* Settings.max_concurrent_jobs, read from the environment: the value the
\* auto-compose endpoint documents.
max_concurrent_jobs == 2
\* process_modal_render_job's max_polls.
max_polls == 200
\* The fewest images process_auto_compose renders (`len(...) < 3` returns).
MinComposeImages == 3
\* Line 175: the most images it selects, and the number it aims at.
MaxComposeImages == 12
TargetComposeImages == 6
\* beat_sync.MIN_IMAGE_DURATION, in seconds.
MIN_IMAGE_DURATION == 2
\* render's IDEAL_PER_IMAGE, in seconds.
IDEAL_PER_IMAGE == 3
\* _adjust_script_timings' SUBTITLE_GAP, MIN_SUBTITLE_DURATION and
\* MAX_SUBTITLE_DURATION, in tenths of a second.
SUBTITLE_GAP == 5
MIN_SUBTITLE_DURATION == 15
MAX_SUBTITLE_DURATION == 40
\* s3_client.py: attempts of download_file, and its first delay in seconds.
MAX_RETRIES == 3
RETRY_DELAY == 1

\* Run slots (one per execution of a pipeline function) and job ids.
Runs == {1, 2, 3}
JobIds == {1, 2, 3}

\* ---------------------------------------------------------- optional values
\* Python's None is <<>>, a present value x is <<x>>.
None == <<>>
Some(x) == <<x>>
\* `if x:` on an Optional[str]: neither None nor the empty string.
Truthy(o) == o # None /\ o[1] # ""

\* ------------------------------------------------------------- job records
NoRec == [absent |-> TRUE]

\* JobQueue.create_job: the whole record is replaced.  `data` is the request
\* of the submission; created_at, the time of the call, is told apart the same
\* way.  A key the dict does not have (output_url, error, metadata) is None.
create_job_record(data) ==
    [status |-> "queued", progress |-> 0, current_step |-> "Queued",
     created_at |-> data, data |-> data,
     output_url |-> None, error |-> None, metadata |-> None]

\* The keyword arguments of one update_job call; None for one not passed.
Args(status, progress, current_step, output_url, error, metadata) ==
    [status |-> status, progress |-> progress, current_step |-> current_step,
     output_url |-> output_url, error |-> error, metadata |-> metadata]

\* JobQueue.update_job, lines 107-119: the fields written into job_data.  The
\* callers pass metadata as a non-empty dict or not at all.
update_job_fields(job_data, a) ==
    [job_data EXCEPT
       !.status       = IF Truthy(a.status) THEN a.status[1] ELSE @,
       !.progress     = IF a.progress # None THEN a.progress[1] ELSE @,
       !.current_step = IF Truthy(a.current_step) THEN a.current_step[1] ELSE @,
       !.output_url   = IF Truthy(a.output_url) THEN a.output_url ELSE @,
       !.error        = IF Truthy(a.error) THEN a.error ELSE @,
       !.metadata     = IF a.metadata # None THEN a.metadata ELSE @]

\* --------------------------------------------------- VideoRenderer.render
\* The progress values render reports, in order, for n images: the fixed steps
\* and the per-image steps 30 + int(25 * (i + 1) / n).
RenderProgress(n) ==
    <<0, 10, 15, 20, 25, 30>>
    \o [i \in 1..n |-> 30 + ((25 * i) \div n)]
    \o <<55, 65, 75, 80, 85, 95, 100>>

RenderStepName(n) ==
    <<"Downloading images", "Downloading audio", "Analyzing audio beats",
      "Calculating cut timings", "Processing images", "Creating image clips">>
    \o [i \in 1..n |-> "Processing image"]
    \o <<"Applying transitions", "Adding text overlays", "Adding audio track",
         "Applying color grading", "Rendering final video", "Uploading to storage",
         "Completed">>

\* S3Client.get_public_url: never empty.
s3_url == "https://bucket/key.mp4"

\* str(e) of the exceptions a stage of render can raise: download_file re-raises
\* the HTTP client's last error, and its timeouts carry no message.
ExcMessages == {"", "error text"}
\* Exceptions that always carry a message (a Redis connection error).
OneMessage == {"error text"}

\* ------------------------------------------- BeatSyncEngine.calculate_cuts
\* Times are whole seconds on the way in.  target_duration / num_images is kept
\* exact by holding every time inside one call as a whole number of
\* num_images-ths of a second: x seconds is x * num_images, and the returned
\* segment bounds are in that unit.  The rounding of binary floating point is
\* not represented.  beat_times is held as the set of its values: the code
\* tests the list for emptiness and then builds a set from it.
Nths(x, num_images) == x * num_images

CutStyles == {"fast", "medium", "slow"}

Max(S) == CHOOSE x \in S : \A y \in S : y <= x
Min(S) == CHOOSE x \in S : \A y \in S : x <= y
Abs(x) == IF x < 0 THEN -x ELSE x

\* _even_distribution: (i * duration_per_image, (i + 1) * duration_per_image).
even_distribution(num_images, target_duration) ==
    [k \in 1..num_images |-> <<(k - 1) * target_duration, k * target_duration>>]

\* The boundary values with no beat filtered out.
valid_beats_unfiltered(beat_times, target_duration) ==
    {0} \cup beat_times \cup {target_duration}

\* sorted(set([0.0] + [t for t in beat_times if 0 < t < target_duration]
\*            + [target_duration])), in seconds.
valid_beats(beat_times, target_duration) ==
    {0} \cup {b \in beat_times : 0 < b /\ b < target_duration} \cup {target_duration}

\* ideal_duration * i.
ideal_cut(i, target_duration) == target_duration * i

\* prev_cut + MIN_IMAGE_DURATION.
min_cut(prev_cut, num_images) == prev_cut + Nths(MIN_IMAGE_DURATION, num_images)

\* A max_cut that reserves no time for the images still to come.
max_cut_unreserved(i, num_images, target_duration) ==
    Nths(target_duration, num_images)

\* target_duration - (remaining_images * MIN_IMAGE_DURATION).
max_cut(i, num_images, target_duration) ==
    Nths(target_duration, num_images)
        - Nths((num_images - i) * MIN_IMAGE_DURATION, num_images)

\* The beats between min_cut and max_cut that lie after prev_cut.
valid_candidates(beats, i, prev_cut, num_images, target_duration) ==
    {c \in {Nths(b, num_images) : b \in beats} :
        /\ min_cut(prev_cut, num_images) <= c
        /\ c <= max_cut(i, num_images, target_duration)
        /\ c > prev_cut}

\* The choice by cut_style with the preferences of "fast" and "slow" exchanged.
styled_cut_exchanged(candidates, ideal, cut_style) ==
    IF cut_style = "slow"
    THEN LET candidates_before == {b \in candidates : b <= ideal}
         IN  IF candidates_before # {} THEN Max(candidates_before)
             ELSE Min(candidates)
    ELSE IF cut_style = "fast"
    THEN LET candidates_after == {b \in candidates : b >= ideal}
         IN  IF candidates_after # {} THEN Min(candidates_after)
             ELSE Max(candidates)
    ELSE Min({b \in candidates :
                \A c \in candidates : Abs(b - ideal) <= Abs(c - ideal)})

\* The choice by cut_style without regard to ideal_cut for "fast" and "slow".
styled_cut_extreme(candidates, ideal, cut_style) ==
    IF cut_style = "fast" THEN Min(candidates)
    ELSE IF cut_style = "slow" THEN Max(candidates)
    ELSE Min({b \in candidates :
                \A c \in candidates : Abs(b - ideal) <= Abs(c - ideal)})

\* The choice among the candidates by cut_style; min(..., key=...) of a sorted
\* list returns the earliest of the beats that are equally close.
styled_cut(candidates, ideal, cut_style) ==
    IF cut_style = "fast"
    THEN LET candidates_before == {b \in candidates : b <= ideal}
         IN  IF candidates_before # {} THEN Max(candidates_before)
             ELSE Min(candidates)
    ELSE IF cut_style = "slow"
    THEN LET candidates_after == {b \in candidates : b >= ideal}
         IN  IF candidates_after # {} THEN Min(candidates_after)
             ELSE Max(candidates)
    ELSE Min({b \in candidates :
                \A c \in candidates : Abs(b - ideal) <= Abs(c - ideal)})

\* One pass of the loop with the ideal position taken unclamped when no beat
\* qualifies.
cut_point_unclamped(beats, i, prev_cut, num_images, target_duration, cut_style) ==
    LET candidates == valid_candidates(beats, i, prev_cut, num_images, target_duration)
    IN  IF candidates = {}
        THEN ideal_cut(i, target_duration)
        ELSE styled_cut(candidates, ideal_cut(i, target_duration), cut_style)

\* One pass of the loop `for i in range(1, num_images)`: the cut point appended.
cut_point(beats, i, prev_cut, num_images, target_duration, cut_style) ==
    LET candidates == valid_candidates(beats, i, prev_cut, num_images, target_duration)
        lo == min_cut(prev_cut, num_images)
        hi == max_cut(i, num_images, target_duration)
        ideal == ideal_cut(i, target_duration)
    IN  IF candidates = {}
        THEN Min({Max({lo, ideal}), hi})
        ELSE styled_cut(candidates, ideal, cut_style)

\* cut_points after the passes 1..k of the loop.
RECURSIVE cut_points(_, _, _, _, _)
cut_points(beats, k, num_images, target_duration, cut_style) ==
    IF k = 0 THEN <<0>>
    ELSE LET before == cut_points(beats, k - 1, num_images, target_duration, cut_style)
         IN  Append(before, cut_point(beats, k, before[k], num_images,
                                      target_duration, cut_style))

\* Segments that stop at the last interior cut point.
time_ranges_open(points, num_images, target_duration) ==
    [k \in 1..num_images |->
        <<points[k], IF k < num_images THEN points[k + 1] ELSE points[k]>>]

\* cut_points.append(target_duration) and the list of (start, end) ranges.
time_ranges(points, num_images, target_duration) ==
    LET all == Append(points, Nths(target_duration, num_images))
    IN  [k \in 1..num_images |-> <<all[k], all[k + 1]>>]

\* calculate_cuts with the fallback taken only below num_images boundary values.
calculate_cuts_lenient(beat_times, num_images, target_duration, cut_style) ==
    IF num_images <= 0 THEN <<>>
    ELSE IF beat_times = {}
    THEN even_distribution(num_images, target_duration)
    ELSE LET beats == valid_beats(beat_times, target_duration)
         IN  IF Cardinality(beats) < num_images
             THEN even_distribution(num_images, target_duration)
             ELSE time_ranges(cut_points(beats, num_images - 1, num_images,
                                         target_duration, cut_style),
                              num_images, target_duration)

calculate_cuts(beat_times, num_images, target_duration, cut_style) ==
    IF num_images <= 0 THEN <<>>
    ELSE IF beat_times = {}
    THEN even_distribution(num_images, target_duration)
    ELSE LET beats == valid_beats(beat_times, target_duration)
         IN  IF Cardinality(beats) < num_images + 1
             THEN even_distribution(num_images, target_duration)
             ELSE time_ranges(cut_points(beats, num_images - 1, num_images,
                                         target_duration, cut_style),
                              num_images, target_duration)

\* ------------------------------------- VideoRenderer.render, lines 94-130
\* The presets: duration_range and cut_style of each.
PRESETS ==
    [v \in {"Exciting", "Emotional", "Pop", "Minimal"} |->
        CASE v = "Exciting"  -> [duration_range |-> <<10, 15>>, cut_style |-> "fast"]
          [] v = "Emotional" -> [duration_range |-> <<20, 30>>, cut_style |-> "slow"]
          [] v = "Pop"       -> [duration_range |-> <<15, 20>>, cut_style |-> "medium"]
          [] v = "Minimal"   -> [duration_range |-> <<15, 25>>, cut_style |-> "medium"]]

get_preset(vibe) == PRESETS[vibe]

\* A floor of IDEAL_PER_IMAGE for each image.
ideal_duration_for_images(n) == n * IDEAL_PER_IMAGE

\* num_images * MIN_IMAGE_DURATION.
min_duration_for_images(n) == n * MIN_IMAGE_DURATION

\* The clamping with a requested duration not held to max_duration.
clamped_to_audio(preset, n, audio, request) ==
    LET min_duration == preset.duration_range[1]
        max_duration == preset.duration_range[2]
    IN  IF request > 0
        THEN Min({Max({min_duration_for_images(n), request}), audio})
        ELSE Min({Max({min_duration, min_duration_for_images(n), n * IDEAL_PER_IMAGE}),
                  max_duration, audio})

\* Lines 106-119: the target duration before the final check, from the
\* requested duration when it is positive (`if x and x > 0`), else from the
\* ideal one.  Durations are whole seconds.
clamped_duration(preset, n, audio, request) ==
    LET min_duration == preset.duration_range[1]
        max_duration == preset.duration_range[2]
    IN  IF request > 0
        THEN Min({Max({min_duration_for_images(n), request}), audio, max_duration})
        ELSE Min({Max({min_duration, min_duration_for_images(n), n * IDEAL_PER_IMAGE}),
                  max_duration, audio})

\* Line 128: the final check fires.
forced_floor(preset, n, audio, request) ==
    clamped_duration(preset, n, audio, request) < min_duration_for_images(n)

\* The target duration without the final check.
planned_unchecked(preset, n, audio, request) ==
    clamped_duration(preset, n, audio, request)

\* The final check taking the whole audio track.
planned_whole_audio(preset, n, audio, request) ==
    IF forced_floor(preset, n, audio, request)
    THEN audio
    ELSE clamped_duration(preset, n, audio, request)

\* Lines 127-130: the target duration handed to calculate_cuts.
planned_duration(preset, n, audio, request) ==
    IF forced_floor(preset, n, audio, request)
    THEN Min({min_duration_for_images(n), audio})
    ELSE clamped_duration(preset, n, audio, request)

\* ---------------------------------- VideoRenderer._adjust_script_timings
\* Of a caption line only its place in the list matters: the text is copied,
\* the timing and duration supplied are not read.  video_duration comes in
\* tenths of a second.  The two divisions, by num_lines and by num_lines - 1,
\* are kept exact by holding every time inside one call as a whole number of
\* TimeUnit(num_lines)-ths of a tenth of a second; the returned timings and
\* durations are in that unit.  The values are the exact ones; the code computes
\* them in binary floating point, and where its rounding changes the branch
\* taken (the comparisons of lines 480 and 495) the inputs concerned are listed
\* in RoundsAbove and RoundsBelow.
TimeUnit(num_lines) == IF num_lines > 1 THEN num_lines * (num_lines - 1) ELSE 1
Tenths(x, num_lines) == x * TimeUnit(num_lines)

\* Line 471: video_duration - 0.5.
total_available(num_lines, video_duration) ==
    Tenths(video_duration - 5, num_lines)

\* Line 472: (num_lines - 1) * SUBTITLE_GAP.
total_gaps(num_lines) == Tenths((num_lines - 1) * SUBTITLE_GAP, num_lines)

\* Lines 473-477: the even share of a line, clamped.
clamped_share(num_lines, video_duration) ==
    LET total_subtitle_time ==
            total_available(num_lines, video_duration) - total_gaps(num_lines)
    IN  Max({Tenths(MIN_SUBTITLE_DURATION, num_lines),
             Min({Tenths(MAX_SUBTITLE_DURATION, num_lines),
                  total_subtitle_time \div num_lines})})

\* The left side of line 480 against the right, in exact arithmetic: the lines
\* and the gaps do not fit.
share_overruns(num_lines, video_duration) ==
    clamped_share(num_lines, video_duration) * num_lines + total_gaps(num_lines)
        > total_available(num_lines, video_duration)

\* Lines 476-480 in double precision: the <<num_lines, video_duration>> with up
\* to 7 lines and 30.1 s at which the even share is not clamped and
\* duration_per_subtitle * num_lines + total_gaps, equal to total_available in
\* exact arithmetic, comes out one unit in the last place above it.  At 3 lines
\* and 7.8 s: 7.3 / 3 -> 2.1, 2.1 * 3 + 1.0 -> 7.300000000000001 > 7.3.
RoundsAbove ==
    {<<3, 77>>, <<3, 78>>, <<5, 131>>, <<5, 139>>, <<5, 156>>, <<6, 154>>,
     <<6, 156>>, <<7, 178>>, <<7, 182>>}

\* Lines 494-495 in double precision: the <<num_lines, video_duration>> with up
\* to 7 lines and 30.1 s at which the shortened duration of the last line,
\* 1.0 in exact arithmetic, comes out below 1.0.  At 2 lines and 3.3 s:
\* 3.3 - 2.0 - 0.3 -> 0.9999999999999998.
RoundsBelow ==
    {<<2, 33>>, <<3, 33>>, <<3, 50>>, <<4, 33>>, <<4, 50>>, <<4, 67>>,
     <<5, 33>>, <<5, 50>>, <<5, 67>>, <<5, 84>>, <<6, 33>>, <<6, 50>>,
     <<6, 67>>, <<6, 84>>, <<6, 101>>, <<7, 33>>, <<7, 50>>, <<7, 67>>,
     <<7, 84>>, <<7, 101>>}

\* Line 480 as the code evaluates it.
not_enough_time(num_lines, video_duration) ==
    \/ share_overruns(num_lines, video_duration)
    \/ <<num_lines, video_duration>> \in RoundsAbove

\* Lines 477-482: duration_per_subtitle.
duration_per_subtitle(num_lines, video_duration) ==
    IF not_enough_time(num_lines, video_duration)
    THEN Tenths(MIN_SUBTITLE_DURATION, num_lines)
    ELSE clamped_share(num_lines, video_duration)

\* The gap without its floor of 0.2 s.
subtitle_gap_unfloored(num_lines, video_duration) ==
    IF not_enough_time(num_lines, video_duration)
    THEN (total_available(num_lines, video_duration)
             - Tenths(MIN_SUBTITLE_DURATION, num_lines) * num_lines)
            \div Max({1, num_lines - 1})
    ELSE Tenths(SUBTITLE_GAP, num_lines)

\* Lines 455 and 483: the gap in use.
subtitle_gap(num_lines, video_duration) ==
    IF not_enough_time(num_lines, video_duration)
    THEN Max({Tenths(2, num_lines),
              (total_available(num_lines, video_duration)
                  - Tenths(MIN_SUBTITLE_DURATION, num_lines) * num_lines)
                 \div Max({1, num_lines - 1})})
    ELSE Tenths(SUBTITLE_GAP, num_lines)

\* Line 493: a line that starts at `timing` would end in the last 0.3 s.
exceeds_video(timing, num_lines, video_duration) ==
    timing + duration_per_subtitle(num_lines, video_duration)
        > Tenths(video_duration - 3, num_lines)

\* Lines 490-494: the duration of a line that starts at `timing`.
line_duration(timing, num_lines, video_duration) ==
    IF exceeds_video(timing, num_lines, video_duration)
    THEN Tenths(video_duration - 3, num_lines) - timing
    ELSE duration_per_subtitle(num_lines, video_duration)

\* Line 495 without the test: no line is ever skipped.
too_short_never(duration, num_lines, video_duration) == FALSE

\* Line 495: the shortened duration is below 1.0 s.
too_short(duration, num_lines, video_duration) ==
    \/ duration < Tenths(10, num_lines)
    \/ /\ duration = Tenths(10, num_lines)
       /\ <<num_lines, video_duration>> \in RoundsBelow

\* Lines 485-506: the loop over the first k lines; current_time and
\* adjusted_lines after it.
RECURSIVE script_loop(_, _, _)
script_loop(k, num_lines, video_duration) ==
    IF k = 0 THEN [current_time |-> Tenths(3, num_lines), adjusted_lines |-> <<>>]
    ELSE LET before == script_loop(k - 1, num_lines, video_duration)
             timing == before.current_time
             duration == line_duration(timing, num_lines, video_duration)
         IN  IF /\ exceeds_video(timing, num_lines, video_duration)
                /\ too_short(duration, num_lines, video_duration)
             THEN before
             ELSE [current_time |-> timing + duration
                                        + subtitle_gap(num_lines, video_duration),
                   adjusted_lines |-> Append(before.adjusted_lines,
                                             [timing |-> timing,
                                              duration |-> duration])]

adjust_script_timings(num_lines, video_duration) ==
    IF num_lines = 0 THEN <<>>
    ELSE IF num_lines = 1
    THEN <<[timing |-> 5, duration |-> Min({video_duration - 10, MAX_SUBTITLE_DURATION})]>>
    ELSE script_loop(num_lines, num_lines, video_duration).adjusted_lines

\* ------------------------------------------------- S3Client.download_file
\* Line 84: RETRY_DELAY * (2 ** attempt), in seconds.
retry_delay(attempt) == RETRY_DELAY * (2 ^ attempt)

\* Line 90: what `raise last_error or Exception(...)` raises.
raised_error(last_error) ==
    IF last_error # <<>> THEN last_error[1] ELSE "Exception"

\* Line 83 without the test: a sleep after every failed attempt.
backs_off_always(attempt) == TRUE

\* Line 83: a failed attempt is followed by a sleep.
backs_off(attempt) == attempt < MAX_RETRIES - 1

\* ------------------------------------------- VideoRenderer._download_images
\* `images` is the list of the images' order fields; an image is named by its
\* place in that list, a task by its idx, counted from 1 here and from 0 in
\* the code.
\* Line 379 without the sort.
sorted_images_as_given(images) == [i \in 1..Len(images) |-> i]

\* Line 379: sorted(images, key=lambda x: x.order), as the list of the images'
\* places; sorted() is stable.
sorted_images(images) ==
    CHOOSE s \in [1..Len(images) -> 1..Len(images)] :
        /\ \A i, j \in 1..Len(images) : i # j => s[i] # s[j]
        /\ \A i, j \in 1..Len(images) :
              i < j => \/ images[s[i]] < images[s[j]]
                       \/ images[s[i]] = images[s[j]] /\ s[i] < s[j]

\* Lines 381-384: what task idx returns when its download_file returns:
\* (idx, local_path), the file image_{idx}.jpg holding sorted_images[idx].
download_single(idx, images) ==
    [idx |-> idx, local_path |-> [name |-> idx, holds |-> sorted_images(images)[idx]]]

\* A task's result is an exception (line 394).
IsException(result) == "error" \in DOMAIN result

\* Line 393: sorted(results, key=idx, or infinity for an exception): the
\* tuples by idx, then the exceptions in the order gather returned them.
sorted_results(results) ==
    LET n == Len(results)
        key(i) == IF IsException(results[i]) THEN n + 1 ELSE results[i].idx
        s == CHOOSE f \in [1..n -> 1..n] :
                 /\ \A i, j \in 1..n : i # j => f[i] # f[j]
                 /\ \A i, j \in 1..n :
                       i < j => \/ key(f[i]) < key(f[j])
                                \/ key(f[i]) = key(f[j]) /\ f[i] < f[j]
    IN  [i \in 1..n |-> results[s[i]]]

\* Lines 392-400: the loop over the sorted results: the first exception is
\* raised, otherwise the paths are returned.
collect_paths(results) ==
    LET sorted == sorted_results(results)
        errors == {i \in 1..Len(sorted) : IsException(sorted[i])}
    IN  IF errors # {}
        THEN [raised |-> sorted[Min(errors)].error]
        ELSE [returned |-> [i \in 1..Len(sorted) |-> sorted[i].local_path]]

\* ------------------------------------------------------------------- state
VARIABLES
    store,               \* JobQueue.client: job id -> record, or NoRec
    is_connected,        \* JobQueue.is_connected: Redis, or the in-memory store
    sem_value,           \* _render_semaphore._value
    pc,                  \* each run's position in its pipeline function
    path,                \* which pipeline function the run executes
    jid,                 \* request.job_id of the run
    pending,             \* the update_job call between its get and its set
    rk,                  \* index of the next progress step of render
    nimg,                \* number of images render works on
    polls,               \* process_modal_render_job's polls
    semaphore_acquired,  \* process_auto_compose's flag
    exc,                 \* str(e) of the exception being handled
    uploaded,            \* runs whose S3Client.upload_file has returned
    upload_calls,        \* calls of S3Client.upload_file by each run's render
    subs,                \* create_job calls per job id
    deletes,             \* delete_job calls so far
    callback_url,        \* whether the run's request has a callback_url
    hooks,               \* the send_callback calls of each run, in order
    beat_times,          \* calculate_cuts' arguments ...
    num_images,
    target_duration,
    cut_style,
    cuts,                \* ... and what it returned, None before the call
    vibe,                \* request.settings.vibe of the render planning its cuts
    audio_duration,      \* audio_analysis.duration
    requested,           \* request.settings.target_duration
    planned,             \* whether lines 94-130 have set target_duration
    num_lines,           \* len(script.lines) of a call of _adjust_script_timings
    video_duration,      \* its video_duration, in tenths of a second
    adjusted_lines,      \* what it returned, None before the call
    url,                 \* download_file's url, by the branch it takes
    dl_pc,               \* position of the call of download_file
    attempt,             \* its loop variable
    last_error,          \* its last_error
    dl_trace,            \* its attempts and sleeps so far, in order
    images,              \* _download_images' images: the order field of each
    img_pc,              \* position of the call of _download_images
    results,             \* what each download_single task ended with
    completed,           \* the tasks in the order they ended
    image_paths,         \* what the call returned or raised, None before
    unique_candidates,   \* len(unique_candidates) of an auto-compose job's search
    verified_images,     \* len(verified_images): the selected images that passed
    audio_url,           \* whether its request has an audio_url
    use_gpu,             \* job["input"]["use_gpu"] of a call of rp_handler.handler
    nvenc_available,     \* what check_nvenc_available returned
    h_pc,                \* position of handler
    r_pc,                \* position of the thread running run_async_render
    published,           \* whether the output video is in the bucket
    handler_return,      \* what handler returned, None before
    render_pc,           \* position of each call of VideoRenderer.render
    render_job_id,       \* its request.job_id
    job_dirs             \* base_dir: per job id, the directory and whose files it holds

vars == <<store, is_connected, sem_value, pc, path, jid, pending, rk, nimg, polls,
          semaphore_acquired, exc, uploaded, upload_calls, subs, deletes,
          callback_url, hooks,
          beat_times, num_images, target_duration, cut_style, cuts,
          vibe, audio_duration, requested, planned,
          num_lines, video_duration, adjusted_lines,
          url, dl_pc, attempt, last_error, dl_trace,
          images, img_pc, results, completed, image_paths,
          unique_candidates, verified_images, audio_url,
          use_gpu, nvenc_available, h_pc, r_pc, published, handler_return,
          render_pc, render_job_id, job_dirs>>

\* The variables of the file transfers.
download_vars == <<url, dl_pc, attempt, last_error, dl_trace>>
images_vars == <<images, img_pc, results, completed, image_paths>>
\* What an auto-compose job finds: the result of its search and of its
\* accessibility check, and the audio_url of its request.
compose_vars == <<unique_candidates, verified_images, audio_url>>
\* A call of the RunPod handler and the render thread it starts.
handler_vars == <<use_gpu, nvenc_available, h_pc, r_pc, published, handler_return>>
\* The variables of the calls followed on their own.
\* Calls of render sharing one TempFileManager base directory.
temp_vars == <<render_pc, render_job_id, job_dirs>>
side_vars == <<compose_vars, handler_vars, temp_vars>>
transfer_vars == <<download_vars, images_vars, side_vars>>

NoCall == [none |-> TRUE]

\* No render is planning a duration.
Unplanned ==
    /\ vibe = "Minimal"
    /\ audio_duration = 0
    /\ requested = 0
    /\ planned = FALSE

\* No call of _adjust_script_timings is under way.
NoScript ==
    /\ num_lines = 0
    /\ video_duration = 0
    /\ adjusted_lines = None

\* No call of download_file is under way.
NoDownload ==
    /\ url = "external"
    /\ dl_pc = "idle"
    /\ attempt = 0
    /\ last_error = None
    /\ dl_trace = <<>>

\* No call of _download_images is under way.
NoImages ==
    /\ images = <<>>
    /\ img_pc = "idle"
    /\ results = <<>>
    /\ completed = <<>>
    /\ image_paths = None

\* No auto-compose job has its search results followed.
NoCompose ==
    /\ unique_candidates = 0
    /\ verified_images = 0
    /\ audio_url = FALSE

\* The RunPod handler has not been called.
NoHandler ==
    /\ use_gpu = TRUE
    /\ nvenc_available = FALSE
    /\ h_pc = "idle"
    /\ r_pc = "idle"
    /\ published = FALSE
    /\ handler_return = None

\* The renders whose temporary files are followed, and their job ids.
Renders == 1..MaxRenders
DirIds == {1, 2}
\* A job directory that does not exist.
NoDir == [exists |-> FALSE, files |-> {}]

\* No render's temporary files are followed.
NoTemp ==
    /\ render_pc = [r \in Renders |-> "idle"]
    /\ render_job_id = [r \in Renders |-> 1]
    /\ job_dirs = [j \in DirIds |-> NoDir]

\* None of the calls followed on their own is under way.
NoSide == NoCompose /\ NoHandler /\ NoTemp

\* No file transfer is under way.
NoTransfer == NoDownload /\ NoImages /\ NoSide

\* No call of calculate_cuts is under way.
NoCut ==
    /\ Unplanned
    /\ NoScript
    /\ NoTransfer
    /\ beat_times = {}
    /\ num_images = 0
    /\ target_duration = 0
    /\ cut_style = "medium"
    /\ cuts = None

\* The state after the lifespan startup; `redis` tells whether JobQueue.connect
\* reached Redis or fell back to InMemoryJobStore.
Services(redis) ==
    /\ store = [j \in JobIds |-> NoRec]
    /\ is_connected = redis
    /\ sem_value = max_concurrent_jobs
    /\ pc = [t \in Runs |-> "idle"]
    /\ path = [t \in Runs |-> "none"]
    /\ jid = [t \in Runs |-> 0]
    /\ pending = [t \in Runs |-> NoCall]
    /\ rk = [t \in Runs |-> 0]
    /\ nimg = [t \in Runs |-> 0]
    /\ polls = [t \in Runs |-> 0]
    /\ semaphore_acquired = [t \in Runs |-> FALSE]
    /\ exc = [t \in Runs |-> None]
    /\ uploaded = {}
    /\ upload_calls = [t \in Runs |-> 0]
    /\ subs = [j \in JobIds |-> 0]
    /\ deletes = 0
    /\ callback_url = [t \in Runs |-> FALSE]
    /\ hooks = [t \in Runs |-> <<>>]

Startup(redis) == Services(redis) /\ NoCut

Init == \E redis \in BOOLEAN : Startup(redis)

\* A step that sends no webhook.
NoHooks == UNCHANGED <<callback_url, hooks>>

\* A step outside the cut planning of render.
NoCuts == UNCHANGED <<beat_times, num_images, target_duration, cut_style, cuts,
                      vibe, audio_duration, requested, planned,
                      num_lines, video_duration, adjusted_lines, transfer_vars>>

\* A step outside the file transfers.
NoTransfers == UNCHANGED transfer_vars

\* ---------------------------------------------------------------- update_job
\* update_job: get_job, `if not job_data: return`, the field assignments and
\* client.set.  Awaiting Redis suspends the run between the get and the set, so
\* the set is a step of its own (WriteBack); the in-memory store's coroutines
\* never suspend, so there the whole call is one step.
Call(t, a, next) ==
    /\ pending[t] = NoCall
    /\ pc' = [pc EXCEPT ![t] = next]
    /\ IF store[jid[t]] = NoRec
       THEN UNCHANGED <<store, pending>>
       ELSE IF is_connected
       THEN /\ pending' = [pending EXCEPT ![t] =
                              [job_data |-> update_job_fields(store[jid[t]], a)]]
            /\ UNCHANGED store
       ELSE /\ store' = [store EXCEPT ![jid[t]] = update_job_fields(@, a)]
            /\ UNCHANGED pending
    /\ UNCHANGED <<is_connected, subs, deletes>>

\* update_job's client.set of the record it read and changed.
WriteBack(t) ==
    /\ pending[t] # NoCall
    /\ store' = [store EXCEPT ![jid[t]] = pending[t].job_data]
    /\ pending' = [pending EXCEPT ![t] = NoCall]
    /\ UNCHANGED <<is_connected, sem_value, pc, path, jid, rk, nimg, polls,
                   semaphore_acquired, exc, uploaded, upload_calls, subs, deletes>>
    /\ NoHooks
    /\ NoCuts

\* DELETE /job/{job_id}: cancel_job -> JobQueue.delete_job.
cancel_job(j) ==
    /\ deletes < MaxDeletes
    /\ store[j] # NoRec
    /\ store' = [store EXCEPT ![j] = NoRec]
    /\ deletes' = deletes + 1
    /\ UNCHANGED <<is_connected, sem_value, pc, path, jid, pending, rk, nimg, polls,
                   semaphore_acquired, exc, uploaded, upload_calls, subs>>
    /\ NoHooks
    /\ NoCuts

\* ------------------------------------------------------------- submissions
\* The frame of a step of run t that touches neither the gate nor the counters.
KeepButUploads(t) ==
    UNCHANGED <<sem_value, path, jid, nimg, polls, semaphore_acquired, uploaded,
                callback_url, hooks,
                beat_times, num_images, target_duration, cut_style, cuts,
                vibe, audio_duration, requested, planned,
                num_lines, video_duration, adjusted_lines, transfer_vars>>

Keep(t) == KeepButUploads(t) /\ UNCHANGED upload_calls

\* Run slots are taken in order and job ids are numbered in order of first use:
\* the names of runs and ids carry no meaning.
FreeSlot(t) == pc[t] = "idle" /\ \A u \in Runs : u < t => pc[u] # "idle"
UsableId(j) == \A i \in JobIds : i < j => subs[i] > 0
\* The ids a submission may carry: any id, or only ids not submitted before.
AnyId == {j \in JobIds : UsableId(j)}
FreshId == {j \in AnyId : subs[j] = 0}

\* An endpoint whose create_job keeps what an earlier submission left.
SubmitMerging(t, p, j, n, first) ==
    /\ FreeSlot(t)
    /\ store' = [store EXCEPT ![j] =
                    IF @ = NoRec THEN create_job_record(subs[j] + 1)
                    ELSE [@ EXCEPT !.status = "queued", !.progress = 0,
                                   !.current_step = "Queued", !.data = subs[j] + 1]]
    /\ subs' = [subs EXCEPT ![j] = @ + 1]
    /\ path' = [path EXCEPT ![t] = p]
    /\ jid' = [jid EXCEPT ![t] = j]
    /\ nimg' = [nimg EXCEPT ![t] = n]
    /\ pc' = [pc EXCEPT ![t] = first]
    /\ rk' = [rk EXCEPT ![t] = 1]
    /\ UNCHANGED <<is_connected, sem_value, pending, polls, semaphore_acquired, exc,
                   uploaded, upload_calls, deletes>>
    /\ NoHooks
    /\ NoCuts

\* An endpoint's create_job followed by the start of its pipeline function; the
\* request is numbered by the submissions of its job id.
Submit(t, p, j, n, first) ==
    /\ FreeSlot(t)
    /\ store' = [store EXCEPT ![j] = create_job_record(subs[j] + 1)]
    /\ subs' = [subs EXCEPT ![j] = @ + 1]
    /\ path' = [path EXCEPT ![t] = p]
    /\ jid' = [jid EXCEPT ![t] = j]
    /\ nimg' = [nimg EXCEPT ![t] = n]
    /\ pc' = [pc EXCEPT ![t] = first]
    /\ rk' = [rk EXCEPT ![t] = 1]
    /\ UNCHANGED <<is_connected, sem_value, pending, polls, semaphore_acquired, exc,
                   uploaded, upload_calls, deletes>>
    /\ NoHooks
    /\ NoCuts

\* POST /render and POST /render/auto without Modal: process_render_job.
start_render(t, ids, counts) ==
    \E j \in ids, n \in counts : Submit(t, "render", j, n, "start")

\* POST /render/sync: render_sync runs the renderer itself.
render_sync(t, ids, counts) ==
    \E j \in ids, n \in counts : Submit(t, "sync", j, n, "render")

\* POST /render/modal and POST /render/auto with Modal: process_modal_render_job.
start_modal_render(t, ids) ==
    \E j \in ids : Submit(t, "modal", j, 0, "start")

\* POST /api/v1/compose/auto and /auto/sync: process_auto_compose.
auto_compose(t, ids) ==
    \E j \in ids : Submit(t, "compose", j, 0, "c_queued")

\* POST /api/v1/compose/auto with a callback_url in the request.
auto_compose_callback(t, ids) ==
    \E j \in ids :
        /\ FreeSlot(t)
        /\ store' = [store EXCEPT ![j] = create_job_record(subs[j] + 1)]
        /\ subs' = [subs EXCEPT ![j] = @ + 1]
        /\ path' = [path EXCEPT ![t] = "compose"]
        /\ jid' = [jid EXCEPT ![t] = j]
        /\ nimg' = [nimg EXCEPT ![t] = 0]
        /\ pc' = [pc EXCEPT ![t] = "c_queued"]
        /\ rk' = [rk EXCEPT ![t] = 1]
        /\ callback_url' = [callback_url EXCEPT ![t] = TRUE]
        /\ UNCHANGED <<is_connected, sem_value, pending, polls, semaphore_acquired, exc,
                       uploaded, upload_calls, deletes, hooks>>
        /\ NoCuts

\* ---------------------------------------------- process_render_job (local)
\* Lines 22-27 of process_render_job, 128-133 of process_modal_render_job.
MarkProcessing(t) ==
    /\ pc[t] = "start"
    /\ Call(t, Args(Some("processing"), Some(0),
                    Some(IF path[t] = "modal" THEN "Submitting to Modal cloud"
                         ELSE "Starting render"),
                    None, None, None),
            IF path[t] = "modal" THEN "m_submit" ELSE "render")
    /\ UNCHANGED <<rk, exc>>
    /\ Keep(t)

\* A progress callback that passes the renderer's percentage on unmapped.
CallbackArgsUnmapped(p, progress, step) ==
    Args(None, Some(progress), Some(step), None, None, None)

\* The progress_callback each caller hands to render.
CallbackArgs(p, progress, step) ==
    IF p = "compose"
    THEN Args(None, Some(40 + ((progress * 6) \div 10)), Some(step), None, None, None)
    ELSE Args(None, Some(progress), Some(step), None, None, None)

\* Where the caller continues when render returns, and when it raises.
AfterRender(p) ==
    CASE p = "render" -> "complete" [] p = "sync" -> "done" [] OTHER -> "c_complete"
AfterRaise(p) ==
    CASE p = "render" -> "except" [] p = "sync" -> "done" [] OTHER -> "c_except"

\* render: the stage before progress step rk has finished (for the last step
\* that stage is the upload) and _update_progress reports the step.
RenderStep(t) ==
    /\ pc[t] = "render"
    /\ LET prog == RenderProgress(nimg[t])
           k == rk[t]
       IN /\ k <= Len(prog)
          /\ Call(t, CallbackArgs(path[t], prog[k], RenderStepName(nimg[t])[k]),
                  IF k = Len(prog) THEN AfterRender(path[t]) ELSE "render")
          /\ rk' = [rk EXCEPT ![t] = k + 1]
          /\ uploaded' = IF k = Len(prog) THEN uploaded \cup {t} ELSE uploaded
          /\ upload_calls' = IF k = Len(prog)
                             THEN [upload_calls EXCEPT ![t] = @ + 1]
                             ELSE upload_calls
    /\ UNCHANGED <<sem_value, path, jid, nimg, polls, semaphore_acquired, exc>>
    /\ NoHooks
    /\ NoCuts

\* The stages of render, numbered by the progress step reported before each:
\* stage 1 downloads the images, the last stage uploads the output.
AllStages(n) == 1..(Len(RenderProgress(n)) - 1)
FirstAndLastStage(n) == {1, Len(RenderProgress(n)) - 1}

\* render: the stage running after a reported step raises; render re-raises.
\* `stages` names the stages that may fail.
RenderRaise(t, msgs, stages) ==
    /\ pc[t] = "render"
    /\ pending[t] = NoCall
    /\ rk[t] >= 2
    /\ (rk[t] - 1) \in stages
    /\ \E m \in msgs : exc' = [exc EXCEPT ![t] = Some(m)]
    /\ pc' = [pc EXCEPT ![t] = AfterRaise(path[t])]
    /\ upload_calls' = IF rk[t] = Len(RenderProgress(nimg[t]))
                       THEN [upload_calls EXCEPT ![t] = @ + 1]
                       ELSE upload_calls
    /\ UNCHANGED <<store, is_connected, pending, rk, subs, deletes>>
    /\ KeepButUploads(t)

\* A completion that falls through into the failure handler.
MarkCompletedThenFailed(t) ==
    /\ pc[t] = "complete"
    /\ Call(t, Args(Some("completed"), Some(100), Some("Completed"),
                    Some(s3_url), None, None), "except")
    /\ UNCHANGED <<rk, exc>>
    /\ Keep(t)

\* process_render_job lines 42-48.
MarkCompleted(t) ==
    /\ pc[t] = "complete"
    /\ Call(t, Args(Some("completed"), Some(100), Some("Completed"),
                    Some(s3_url), None, None), "done")
    /\ UNCHANGED <<rk, exc>>
    /\ Keep(t)

\* A failure handler that resets what the job had reported.
MarkFailedClearing(t) ==
    /\ pc[t] = "except"
    /\ Call(t, Args(Some("failed"), Some(0), Some("Failed"), None, exc[t], None), "done")
    /\ UNCHANGED <<rk, exc>>
    /\ Keep(t)

\* `except Exception as e` of process_render_job and process_modal_render_job.
MarkFailed(t) ==
    /\ pc[t] = "except"
    /\ Call(t, Args(Some("failed"), None, None, None, exc[t], None), "done")
    /\ UNCHANGED <<rk, exc>>
    /\ Keep(t)

\* --------------------------------------- process_modal_render_job (remote)
\* `x or default` on an Optional[str].
OrElse(o, default) == IF Truthy(o) THEN o ELSE Some(default)

\* What ModalClient reports as the error of an ERROR or FAILED result: str(e) of
\* the transport error, the backend's error field, or nothing.
ModalErrors == {None, Some(""), Some("backend error")}

\* What ModalClient.get_status returns as output_url with status completed:
\* result.get("output_url") of the backend's answer.
ModalOutputs == {None, Some(s3_url)}

\* submit_render returned a call id: lines 149-158.
ModalSubmitted(t) ==
    /\ pc[t] = "m_submit"
    /\ Call(t, Args(None, Some(5), Some("Processing on Modal cloud"), None, None,
                    Some("modal_call_id")), "m_poll")
    /\ polls' = [polls EXCEPT ![t] = 0]
    /\ UNCHANGED <<sem_value, path, jid, nimg, semaphore_acquired, uploaded, upload_calls, rk, exc>>
    /\ NoHooks
    /\ NoCuts

\* submit_render returned status ERROR: lines 141-147.
ModalSubmitError(t) ==
    /\ pc[t] = "m_submit"
    /\ \E e \in ModalErrors :
          Call(t, Args(Some("failed"), None, None, None,
                       OrElse(e, "Failed to submit to Modal"), None), "done")
    /\ UNCHANGED <<rk, exc>>
    /\ Keep(t)

\* submit_render or get_status raised something other than httpx.HTTPError (an
\* unrecognised status value, a malformed answer): caught at line 214.
ModalRaise(t, msgs) ==
    /\ pc[t] \in {"m_submit", "m_poll"}
    /\ pending[t] = NoCall
    /\ pc[t] = "m_poll" => polls[t] < max_polls
    /\ \E m \in msgs : exc' = [exc EXCEPT ![t] = Some(m)]
    /\ pc' = [pc EXCEPT ![t] = "except"]
    /\ UNCHANGED <<store, is_connected, pending, rk, subs, deletes>>
    /\ Keep(t)

\* One pass of the polling loop, lines 165-205, for each answer of get_status.
ModalPollCompleted(t) ==
    /\ pc[t] = "m_poll"
    /\ polls[t] < max_polls
    /\ \E u \in ModalOutputs :
          Call(t, Args(Some("completed"), Some(100), Some("Completed"), u, None, None),
               "done")
    /\ UNCHANGED <<rk, exc>>
    /\ Keep(t)

\* A failed answer that is recorded while the loop goes on polling.
ModalPollFailedRetry(t) ==
    /\ pc[t] = "m_poll"
    /\ polls[t] < max_polls
    /\ \E e \in ModalErrors, d \in {"Modal render failed", "Modal error"} :
          Call(t, Args(Some("failed"), None, None, None, OrElse(e, d), None), "m_poll")
    /\ UNCHANGED <<rk, exc>>
    /\ Keep(t)

ModalPollFailed(t) ==
    /\ pc[t] = "m_poll"
    /\ polls[t] < max_polls
    /\ \E e \in ModalErrors, d \in {"Modal render failed", "Modal error"} :
          Call(t, Args(Some("failed"), None, None, None, OrElse(e, d), None), "done")
    /\ UNCHANGED <<rk, exc>>
    /\ Keep(t)

\* Still queued or processing: lines 196-205.  `limit` bounds the polls the
\* backend may leave unanswered.
ModalPollPending(t, limit) ==
    /\ pc[t] = "m_poll"
    /\ polls[t] < max_polls
    /\ polls[t] < limit
    /\ LET est == 5 + ((polls[t] * 85) \div max_polls)
       IN Call(t, Args(None, Some(IF est < 90 THEN est ELSE 90),
                       Some("Rendering on Modal cloud (GPU)"), None, None, None), "m_poll")
    /\ polls' = [polls EXCEPT ![t] = @ + 1]
    /\ UNCHANGED <<sem_value, path, jid, nimg, semaphore_acquired, uploaded, upload_calls, rk, exc>>
    /\ NoHooks
    /\ NoCuts

\* A loop that runs out without a word.
ModalTimeoutSilent(t) ==
    /\ pc[t] = "m_poll"
    /\ polls[t] = max_polls
    /\ pending[t] = NoCall
    /\ pc' = [pc EXCEPT ![t] = "done"]
    /\ UNCHANGED <<store, is_connected, pending, rk, exc, subs, deletes>>
    /\ Keep(t)

\* The loop ran out: lines 207-212.
ModalTimeout(t) ==
    /\ pc[t] = "m_poll"
    /\ polls[t] = max_polls
    /\ Call(t, Args(Some("failed"), None, None, None, Some("Modal render timed out"),
                    None), "done")
    /\ UNCHANGED <<rk, exc>>
    /\ Keep(t)

\* ------------------------------------------- process_auto_compose (gated)
\* `if request.callback_url: await send_callback(...)` after a store call: where
\* the run goes next.
ThenNotify(t, cb, next) == IF callback_url[t] THEN cb ELSE next

\* What happens to a delivery: answered 200, answered with another status, or
\* the HTTP client raises.
Deliveries == {"ok", "rejected", "raised"}

\* A send_callback that lets a failed delivery raise.
CallbackRaisesOnFailure(outcome) == outcome # "ok"

\* send_callback lines 62-77: every outcome is logged, none is raised.
CallbackRaises(outcome) == FALSE

\* One `await send_callback(...)` of process_auto_compose, after the store call
\* before it has returned.  `handler` is where an exception raised at that line
\* would be handled.
send_callback(t, at, status, next, handler) ==
    /\ callback_url[t]
    /\ pc[t] = at
    /\ pending[t] = NoCall
    /\ \E o \in Deliveries :
          /\ hooks' = [hooks EXCEPT ![t] = Append(@, [status |-> status, outcome |-> o])]
          /\ pc' = [pc EXCEPT ![t] = IF CallbackRaises(o) THEN handler ELSE next]
          /\ exc' = [exc EXCEPT ![t] = IF CallbackRaises(o) THEN Some("error text") ELSE @]
    /\ UNCHANGED <<store, is_connected, sem_value, path, jid, pending, rk, nimg, polls,
                   semaphore_acquired, uploaded, upload_calls, subs, deletes, callback_url>>
    /\ NoCuts

\* Lines 103-104, 118-119, 170-171 (and 214-215, 289-290) and 366-367 are inside
\* `try`; lines 380-381 are inside the `except` block.
NotifyQueued(t) ==
    send_callback(t, "c_queued_cb", "queued", "c_acquire", "c_except")
NotifyProcessing(t) ==
    send_callback(t, "c_processing_cb", "processing", "c_search", "c_except")
NotifyRejected(t) ==
    send_callback(t, "c_reject_cb", "failed", "c_release", "c_except")
NotifyCompleted(t) ==
    send_callback(t, "c_completed_cb", "completed", "c_release", "c_except")
NotifyFailed(t) ==
    send_callback(t, "c_failed_cb", "failed", "c_release", "c_release")

\* A job reported as processing while it still waits for a render slot.
ComposeQueuedAsProcessing(t) ==
    /\ pc[t] = "c_queued"
    /\ Call(t, Args(Some("processing"), Some(0), Some("Waiting for render slot..."),
                    None, None, None), "c_acquire")
    /\ UNCHANGED <<rk, exc>>
    /\ Keep(t)

\* Lines 93-101: reported as queued while waiting for a render slot.
ComposeQueued(t) ==
    /\ pc[t] = "c_queued"
    /\ Call(t, Args(Some("queued"), Some(0), Some("Waiting for render slot..."),
                    None, None, None), ThenNotify(t, "c_queued_cb", "c_acquire"))
    /\ UNCHANGED <<rk, exc>>
    /\ Keep(t)

\* The store call of line 96 raises (Redis has become unreachable; the in-memory
\* store cannot fail): the only statement before the acquire whose exception is
\* not swallowed.
ComposeQueuedRaise(t, msgs) ==
    /\ is_connected
    /\ pc[t] = "c_queued"
    /\ pending[t] = NoCall
    /\ \E m \in msgs : exc' = [exc EXCEPT ![t] = Some(m)]
    /\ pc' = [pc EXCEPT ![t] = "c_except"]
    /\ UNCHANGED <<store, is_connected, pending, rk, subs, deletes>>
    /\ Keep(t)

\* Lines 105-106: semaphore.acquire() returns once a permit is free.
AcquireSlot(t) ==
    /\ pc[t] = "c_acquire"
    /\ pending[t] = NoCall
    /\ sem_value > 0
    /\ sem_value' = sem_value - 1
    /\ semaphore_acquired' = [semaphore_acquired EXCEPT ![t] = TRUE]
    /\ pc' = [pc EXCEPT ![t] = "c_processing"]
    /\ UNCHANGED <<store, is_connected, path, jid, pending, rk, nimg, polls, exc,
                   uploaded, upload_calls, subs, deletes>>
    /\ NoHooks
    /\ NoCuts

\* Lines 110-116.
ComposeProcessing(t) ==
    /\ pc[t] = "c_processing"
    /\ Call(t, Args(Some("processing"), Some(5), Some("Searching images..."),
                    None, None, None), ThenNotify(t, "c_processing_cb", "c_search"))
    /\ UNCHANGED <<rk, exc>>
    /\ Keep(t)

\* An early return of process_auto_compose: the record is marked failed with
\* error_message and the function returns through `finally`.
ComposeReject(t, at, message) ==
    /\ pc[t] = at
    /\ Call(t, Args(Some("failed"), None, None, None, Some(message), None),
            ThenNotify(t, "c_reject_cb", "c_release"))
    /\ UNCHANGED <<rk, exc>>
    /\ Keep(t)

\* Lines 161-172: fewer than 3 distinct candidates.
ComposeTooFewFound(t) == ComposeReject(t, "c_search", "Not enough images found.")

\* Lines 178-183: enough candidates.
ComposeFound(t) ==
    /\ pc[t] = "c_search"
    /\ Call(t, Args(None, Some(20), Some("Verifying accessibility..."), None, None, None),
            "c_verify")
    /\ UNCHANGED <<rk, exc>>
    /\ Keep(t)

\* ImageFetcher.search raises: caught at line 369.
ComposeSearchRaise(t, msgs) ==
    /\ pc[t] = "c_search"
    /\ pending[t] = NoCall
    /\ \E m \in msgs : exc' = [exc EXCEPT ![t] = Some(m)]
    /\ pc' = [pc EXCEPT ![t] = "c_except"]
    /\ UNCHANGED <<store, is_connected, pending, rk, subs, deletes>>
    /\ Keep(t)

\* Lines 206-216: fewer than 3 images passed the HEAD check.
ComposeTooFewVerified(t) ==
    ComposeReject(t, "c_verify", "Not enough accessible images.")

\* Lines 218-229: n verified images, 3 <= n <= 12, go to the renderer.
ComposeVerified(t, counts) ==
    /\ pc[t] = "c_verify"
    /\ \E n \in counts : nimg' = [nimg EXCEPT ![t] = n]
    /\ Call(t, Args(None, Some(30), Some("Preparing render..."), None, None, None),
            "c_audio")
    /\ UNCHANGED <<sem_value, path, jid, polls, semaphore_acquired, uploaded, upload_calls, rk, exc>>
    /\ NoHooks
    /\ NoCuts

\* Lines 280-291: no audio URL in the request.
ComposeNoAudio(t) ==
    ComposeReject(t, "c_audio", "Audio URL is required for compose video generation")

\* Lines 329-344: the renderer is invoked.
ComposeRender(t) ==
    /\ pc[t] = "c_audio"
    /\ Call(t, Args(None, Some(40), Some("Rendering video..."), None, None, None),
            "render")
    /\ rk' = [rk EXCEPT ![t] = 1]
    /\ UNCHANGED exc
    /\ Keep(t)

\* Lines 345-363.
ComposeCompleted(t) ==
    /\ pc[t] = "c_complete"
    /\ Call(t, Args(Some("completed"), Some(100), Some("Completed"), Some(s3_url),
                    None, Some("search_tags")), ThenNotify(t, "c_completed_cb", "c_release"))
    /\ UNCHANGED <<rk, exc>>
    /\ Keep(t)

\* Lines 369-377.
ComposeFailed(t) ==
    /\ pc[t] = "c_except"
    /\ Call(t, Args(Some("failed"), None, None, None, exc[t], None),
            ThenNotify(t, "c_failed_cb", "c_release"))
    /\ UNCHANGED <<rk, exc>>
    /\ Keep(t)

\* The store call of line 373 raises (Redis is still unreachable): the
\* exception leaves the handler, `finally` runs, line 381 is not reached.
ComposeFailedRaise(t) ==
    /\ is_connected
    /\ pc[t] = "c_except"
    /\ pending[t] = NoCall
    /\ pc' = [pc EXCEPT ![t] = "c_release"]
    /\ UNCHANGED <<store, is_connected, pending, rk, exc, subs, deletes>>
    /\ Keep(t)

\* A `finally` block that never releases.
ReleasesSlotNever(acquired) == FALSE

\* A `finally` block that releases whether or not the permit was acquired.
ReleasesSlotAlways(acquired) == TRUE

\* Whether the `finally` block of lines 383-387 releases.
ReleasesSlot(acquired) == acquired

\* Lines 383-387, after the last store call of the run has returned.
ReleaseSlot(t) ==
    /\ pc[t] = "c_release"
    /\ pending[t] = NoCall
    /\ sem_value' = IF ReleasesSlot(semaphore_acquired[t]) THEN sem_value + 1
                    ELSE sem_value
    /\ pc' = [pc EXCEPT ![t] = "done"]
    /\ UNCHANGED <<store, is_connected, path, jid, pending, rk, nimg, polls,
                   semaphore_acquired, exc, uploaded, upload_calls, subs, deletes>>
    /\ NoHooks
    /\ NoCuts

\* ------------------------------------------------------------ specification
\* Steps common to every pipeline function.
RendererSteps(t, msgs, stages) ==
    \/ WriteBack(t)
    \/ RenderStep(t)
    \/ RenderRaise(t, msgs, stages)

LocalSteps(t) ==
    \/ MarkProcessing(t)
    \/ MarkCompleted(t)
    \/ MarkFailed(t)

ModalSteps(t, msgs, limit) ==
    \/ ModalSubmitted(t)
    \/ ModalSubmitError(t)
    \/ ModalRaise(t, msgs)
    \/ ModalPollCompleted(t)
    \/ ModalPollFailed(t)
    \/ ModalPollPending(t, limit)

ComposeSteps(t, msgs, counts) ==
    \/ ComposeQueued(t)
    \/ AcquireSlot(t)
    \/ ComposeProcessing(t)
    \/ ComposeTooFewFound(t)
    \/ ComposeFound(t)
    \/ ComposeSearchRaise(t, msgs)
    \/ ComposeTooFewVerified(t)
    \/ ComposeVerified(t, counts)
    \/ ComposeNoAudio(t)
    \/ ComposeRender(t)
    \/ ComposeCompleted(t)
    \/ ComposeFailed(t)
    \/ ReleaseSlot(t)

\* One job, every endpoint, every image count, every answer of the backend
\* (the polling loop can run to its end), and deletions of the record.
Next ==
    \/ start_render(1, FreshId, 1..MaxImages)
    \/ render_sync(1, FreshId, 1..MaxImages)
    \/ start_modal_render(1, FreshId)
    \/ auto_compose(1, FreshId)
    \/ \E j \in JobIds : cancel_job(j)
    \/ RendererSteps(1, ExcMessages, AllStages(nimg[1]))
    \/ LocalSteps(1)
    \/ ModalSteps(1, OneMessage, max_polls)
    \/ ModalTimeout(1)
    \/ ComposeSteps(1, OneMessage, MinComposeImages..MaxImages)
    \/ ComposeQueuedRaise(1, OneMessage)

Spec == Init /\ [][Next]_vars

\* Two submissions through the endpoints of routers/render.py that start a
\* background task, on the same job id or on two, with Redis as the store.  A
\* stage of render may fail while images are downloaded or the output is
\* uploaded; the backend answers within PollCap polls.
PairRuns == {1, 2}
SmallCounts == {1}

InitPair == Startup(TRUE)

NextPair ==
    \/ \E t \in PairRuns : start_render(t, AnyId, SmallCounts)
    \/ \E t \in PairRuns : start_modal_render(t, AnyId)
    \/ \E j \in JobIds : cancel_job(j)
    \/ \E t \in PairRuns : RendererSteps(t, OneMessage, FirstAndLastStage(nimg[t]))
    \/ \E t \in PairRuns : LocalSteps(t)
    \/ \E t \in PairRuns : ModalSteps(t, OneMessage, PollCap)

SpecPair == InitPair /\ [][NextPair]_vars

\* Three jobs with ids of their own, submitted to the gated endpoint
\* (auto-compose), with Redis as the store; the store may be unreachable when a
\* job reports that it waits for a slot.
InitGate == Startup(TRUE)

NextGate ==
    \/ \E t \in Runs : auto_compose(t, FreshId)
    \/ \E t \in Runs : RendererSteps(t, OneMessage, FirstAndLastStage(nimg[t]))
    \/ \E t \in Runs : ComposeSteps(t, OneMessage, {MinComposeImages})
    \/ \E t \in Runs : ComposeQueuedRaise(t, OneMessage)

SpecGate == InitGate /\ [][NextGate]_vars

\* Three jobs with ids of their own, each submitted to the gated endpoint or to
\* POST /render, with the in-memory store.
InitMixed == Startup(FALSE)

NextMixed ==
    \/ \E t \in Runs : start_render(t, FreshId, SmallCounts)
    \/ \E t \in Runs : auto_compose(t, FreshId)
    \/ \E t \in Runs : RenderStep(t)
    \/ \E t \in Runs : RenderRaise(t, OneMessage, FirstAndLastStage(nimg[t]))
    \/ \E t \in Runs : LocalSteps(t)
    \/ \E t \in Runs : ComposeSteps(t, OneMessage, {MinComposeImages})

SpecMixed == InitMixed /\ [][NextMixed]_vars

\* Three auto-compose jobs and a gate of capacity 1 (MAX_CONCURRENT_JOBS=1), so
\* that two jobs wait at the gate together; the in-memory store.  The event loop
\* runs every coroutine that is ready: each run's next step is weakly fair, a
\* submission is not.
InitNarrow ==
    /\ store = [j \in JobIds |-> NoRec]
    /\ is_connected = FALSE
    /\ sem_value = 1
    /\ pc = [t \in Runs |-> "idle"]
    /\ path = [t \in Runs |-> "none"]
    /\ jid = [t \in Runs |-> 0]
    /\ pending = [t \in Runs |-> NoCall]
    /\ rk = [t \in Runs |-> 0]
    /\ nimg = [t \in Runs |-> 0]
    /\ polls = [t \in Runs |-> 0]
    /\ semaphore_acquired = [t \in Runs |-> FALSE]
    /\ exc = [t \in Runs |-> None]
    /\ uploaded = {}
    /\ upload_calls = [t \in Runs |-> 0]
    /\ subs = [j \in JobIds |-> 0]
    /\ deletes = 0
    /\ callback_url = [t \in Runs |-> FALSE]
    /\ hooks = [t \in Runs |-> <<>>]
    /\ NoCut

GatedStep(t) ==
    \/ RenderStep(t)
    \/ RenderRaise(t, OneMessage, FirstAndLastStage(nimg[t]))
    \/ ComposeSteps(t, OneMessage, {MinComposeImages})

NextNarrow ==
    \/ \E t \in Runs : auto_compose(t, FreshId)
    \/ \E t \in Runs : GatedStep(t)

SpecNarrow ==
    InitNarrow /\ [][NextNarrow]_vars /\ \A t \in Runs : WF_vars(GatedStep(t))

\* One job on the remote path, either store, deletions of its record.  Every
\* await of process_modal_render_job ends (the HTTP client has a timeout, sleep
\* returns), so the run's next step is weakly fair.
RemoteStep(t) ==
    \/ WriteBack(t)
    \/ MarkProcessing(t)
    \/ MarkFailed(t)
    \/ ModalSteps(t, OneMessage, max_polls)
    \/ ModalTimeout(t)

NextRemote ==
    \/ start_modal_render(1, FreshId)
    \/ \E j \in JobIds : cancel_job(j)
    \/ RemoteStep(1)

SpecRemote == Init /\ [][NextRemote]_vars /\ WF_vars(RemoteStep(1))

\* One auto-compose job with a callback_url, either store, deletions of its
\* record; Redis may be unreachable when the job reports that it waits and
\* still be when the failure is recorded.  Every await ends (the HTTP clients
\* have timeouts), so the run's next step is weakly fair.
HookedStep(t) ==
    \/ WriteBack(t)
    \/ RenderStep(t)
    \/ RenderRaise(t, OneMessage, FirstAndLastStage(nimg[t]))
    \/ ComposeSteps(t, OneMessage, {MinComposeImages})
    \/ ComposeQueuedRaise(t, OneMessage)
    \/ ComposeFailedRaise(t)
    \/ NotifyQueued(t)
    \/ NotifyProcessing(t)
    \/ NotifyRejected(t)
    \/ NotifyFailed(t)
    \/ NotifyCompleted(t)

NextHooks ==
    \/ auto_compose_callback(1, FreshId)
    \/ \E j \in JobIds : cancel_job(j)
    \/ HookedStep(1)

SpecHooks == Init /\ [][NextHooks]_vars /\ WF_vars(HookedStep(1))

\* One call of calculate_cuts on any input: up to MaxBeats beat timestamps
\* (on, inside and beyond the ends of the video), up to MaxCutImages images, a
\* target duration of up to MaxDuration seconds, any pacing style.
BeatLists == {B \in SUBSET (0..MaxDuration) : Cardinality(B) <= MaxBeats}

\* Two longer calls beside them: one beat a second for 29 s with 5 images over
\* 15 s, and no beats with 4 images over 12 s.
LongCalls ==
    {[beat_times |-> 1..29, num_images |-> 5, target_duration |-> 15],
     [beat_times |-> {}, num_images |-> 4, target_duration |-> 12]}

InitCuts ==
    /\ Services(FALSE)
    /\ \/ /\ beat_times \in BeatLists
          /\ num_images \in 0..MaxCutImages
          /\ target_duration \in 0..MaxDuration
       \/ \E c \in LongCalls :
             /\ beat_times = c.beat_times
             /\ num_images = c.num_images
             /\ target_duration = c.target_duration
    /\ cut_style \in CutStyles
    /\ cuts = None
    /\ Unplanned
    /\ NoScript
    /\ NoTransfer

CalculateCuts ==
    /\ cuts = None
    /\ cuts' = Some(calculate_cuts(beat_times, num_images, target_duration, cut_style))
    /\ UNCHANGED <<store, is_connected, sem_value, pc, path, jid, pending, rk, nimg,
                   polls, semaphore_acquired, exc, uploaded, upload_calls, subs, deletes,
                   beat_times, num_images, target_duration, cut_style,
                   vibe, audio_duration, requested, planned,
                   num_lines, video_duration, adjusted_lines>>
    /\ NoHooks
    /\ NoTransfers

NextCuts == CalculateCuts

SpecCuts == InitCuts /\ [][NextCuts]_vars

\* One render from the audio analysis to the cut timings (lines 83-143): any
\* preset, 1..MaxPlanImages images, an audio track of up to MaxAudio seconds
\* without beats or with a beat each second, a requested duration of up to
\* MaxRequested seconds (0: not to be used).
InitPlan ==
    /\ Services(FALSE)
    /\ vibe \in DOMAIN PRESETS
    /\ num_images \in 1..MaxPlanImages
    /\ audio_duration \in 0..MaxAudio
    /\ requested \in 0..MaxRequested
    /\ beat_times \in {{}, 1..audio_duration}
    /\ cut_style = get_preset(vibe).cut_style
    /\ target_duration = 0
    /\ planned = FALSE
    /\ cuts = None
    /\ NoScript
    /\ NoTransfer

\* Lines 94-130.
PlanDuration ==
    /\ ~planned
    /\ planned' = TRUE
    /\ target_duration' = planned_duration(get_preset(vibe), num_images,
                                           audio_duration, requested)
    /\ UNCHANGED <<store, is_connected, sem_value, pc, path, jid, pending, rk, nimg,
                   polls, semaphore_acquired, exc, uploaded, upload_calls, subs, deletes,
                   beat_times, num_images, cut_style, cuts,
                   vibe, audio_duration, requested,
                   num_lines, video_duration, adjusted_lines>>
    /\ NoHooks
    /\ NoTransfers

\* Lines 138-143.
PlanCuts == planned /\ CalculateCuts

NextPlan == PlanDuration \/ PlanCuts

SpecPlan == InitPlan /\ [][NextPlan]_vars

\* One call of _adjust_script_timings: up to MaxLines caption lines, a video
\* of up to MaxVideo tenths of a second.
InitScript ==
    /\ Services(FALSE)
    /\ beat_times = {}
    /\ num_images = 0
    /\ target_duration = 0
    /\ cut_style = "medium"
    /\ cuts = None
    /\ Unplanned
    /\ num_lines \in 0..MaxLines
    /\ video_duration \in 0..MaxVideo
    /\ adjusted_lines = None
    /\ NoTransfer

AdjustScriptTimings ==
    /\ adjusted_lines = None
    /\ adjusted_lines' = Some(adjust_script_timings(num_lines, video_duration))
    /\ UNCHANGED <<store, is_connected, sem_value, pc, path, jid, pending, rk, nimg,
                   polls, semaphore_acquired, exc, uploaded, upload_calls, subs, deletes,
                   beat_times, num_images, target_duration, cut_style, cuts,
                   vibe, audio_duration, requested, planned,
                   num_lines, video_duration>>
    /\ NoHooks
    /\ NoTransfers

NextScript == AdjustScriptTimings

SpecScript == InitScript /\ [][NextScript]_vars

\* One call of S3Client.download_file: a url of any of the three kinds the
\* function tells apart, each attempt succeeding or raising one of the errors
\* its branch can raise.
UrlKinds == {"bucket", "s3", "external"}

\* What an attempt can raise: self.client.download_file (lines 60, 64), the
\* Referer header of a url without "//" (71), client.get (74),
\* raise_for_status (75), writing the file (76-77).
DownloadErrors(kind) ==
    IF kind = "external"
    THEN {"IndexError", "ConnectError", "HTTPStatusError", "OSError"}
    ELSE {"ClientError", "EndpointConnectionError"}

\* No job, cut, plan or caption step.
OnlyTransfers ==
    /\ UNCHANGED <<store, is_connected, sem_value, pc, path, jid, pending, rk, nimg,
                   polls, semaphore_acquired, exc, uploaded, upload_calls, subs, deletes,
                   beat_times, num_images, target_duration, cut_style, cuts,
                   vibe, audio_duration, requested, planned,
                   num_lines, video_duration, adjusted_lines, side_vars>>
    /\ NoHooks

InitDownload ==
    /\ Services(FALSE)
    /\ Unplanned
    /\ NoScript
    /\ beat_times = {}
    /\ num_images = 0
    /\ target_duration = 0
    /\ cut_style = "medium"
    /\ cuts = None
    /\ url \in UrlKinds
    /\ dl_pc = "idle"
    /\ attempt = 0
    /\ last_error = None
    /\ dl_trace = <<>>
    /\ NoImages
    /\ NoSide

\* Line 53: `for attempt in range(MAX_RETRIES)` moves on from iteration n.
next_attempt(n) ==
    IF n + 1 < MAX_RETRIES
    THEN dl_pc' = "try" /\ attempt' = n + 1
    ELSE dl_pc' = "exhausted" /\ attempt' = n

Attempted(n, outcome) == [ev |-> "attempt", attempt |-> n, outcome |-> outcome, delay |-> 0]
Slept(n, delay) == [ev |-> "sleep", attempt |-> n, outcome |-> "", delay |-> delay]

\* Lines 51-53: the call enters the loop.
DownloadCall ==
    /\ dl_pc = "idle"
    /\ dl_pc' = "try"
    /\ attempt' = 0
    /\ last_error' = None
    /\ UNCHANGED <<url, dl_trace>>
    /\ UNCHANGED images_vars
    /\ OnlyTransfers

\* Lines 54-79: the attempt succeeds, `return local_path`.
DownloadReturn ==
    /\ dl_pc = "try"
    /\ dl_pc' = "returned"
    /\ dl_trace' = Append(dl_trace, Attempted(attempt, "ok"))
    /\ UNCHANGED <<url, attempt, last_error>>
    /\ UNCHANGED images_vars
    /\ OnlyTransfers

\* Lines 81-88: the attempt raises e; sleep, or fall out of the loop.
DownloadFail(e) ==
    /\ dl_pc = "try"
    /\ last_error' = Some(e)
    /\ dl_trace' = Append(dl_trace, Attempted(attempt, e))
    /\ IF backs_off(attempt)
       THEN dl_pc' = "sleep" /\ attempt' = attempt
       ELSE next_attempt(attempt)
    /\ UNCHANGED url
    /\ UNCHANGED images_vars
    /\ OnlyTransfers

\* Line 86 returns: the next iteration, or the end of the loop.
DownloadSlept ==
    /\ dl_pc = "sleep"
    /\ dl_trace' = Append(dl_trace, Slept(attempt, retry_delay(attempt)))
    /\ next_attempt(attempt)
    /\ UNCHANGED <<url, last_error>>
    /\ UNCHANGED images_vars
    /\ OnlyTransfers

\* Line 90: `raise last_error or Exception(...)`.
DownloadRaise ==
    /\ dl_pc = "exhausted"
    /\ dl_pc' = "raised"
    /\ UNCHANGED <<url, attempt, last_error, dl_trace>>
    /\ UNCHANGED images_vars
    /\ OnlyTransfers

NextDownload ==
    \/ DownloadCall
    \/ DownloadReturn
    \/ \E e \in DownloadErrors(url) : DownloadFail(e)
    \/ DownloadSlept
    \/ DownloadRaise

SpecDownload == InitDownload /\ [][NextDownload]_vars

\* One call of _download_images: 1..MaxDownloads images with any order fields,
\* the download_single tasks ending in any order, each with its path or with
\* the error download_file raised.
ImageLists ==
    UNION {[1..n -> 1..MaxDownloads] : n \in 1..MaxDownloads}

\* A task that has not ended.
Running == [running |-> TRUE]

InitImages ==
    /\ Services(FALSE)
    /\ Unplanned
    /\ NoScript
    /\ beat_times = {}
    /\ num_images = 0
    /\ target_duration = 0
    /\ cut_style = "medium"
    /\ cuts = None
    /\ NoDownload
    /\ images \in ImageLists
    /\ img_pc = "idle"
    /\ results = <<>>
    /\ completed = <<>>
    /\ image_paths = None
    /\ NoSide

\* Lines 379-389: the tasks are created and gathered.
DownloadImages ==
    /\ img_pc = "idle"
    /\ img_pc' = "gather"
    /\ results' = [idx \in 1..Len(images) |-> Running]
    /\ UNCHANGED <<images, completed, image_paths>>
    /\ UNCHANGED download_vars
    /\ OnlyTransfers

\* Task idx ends: download_file returned (line 384), or raised e and gather,
\* called with return_exceptions=True, keeps e as the task's result.
DownloadSingle(idx, outcome) ==
    /\ img_pc = "gather"
    /\ idx \in 1..Len(images)
    /\ results[idx] = Running
    /\ results' = [results EXCEPT ![idx] =
                      IF outcome = "ok" THEN download_single(idx, images)
                      ELSE [error |-> [of |-> idx, type |-> outcome]]]
    /\ completed' = Append(completed, idx)
    /\ UNCHANGED <<images, img_pc, image_paths>>
    /\ UNCHANGED download_vars
    /\ OnlyTransfers

\* Lines 389-400: every task has ended, gather returns the results in the
\* order of the tasks; they are sorted and collected.
GatherReturn ==
    /\ img_pc = "gather"
    /\ \A idx \in 1..Len(images) : results[idx] # Running
    /\ image_paths' = Some(collect_paths(results))
    /\ img_pc' = IF "raised" \in DOMAIN collect_paths(results)
                 THEN "raised" ELSE "returned"
    /\ UNCHANGED <<images, results, completed>>
    /\ UNCHANGED download_vars
    /\ OnlyTransfers

NextImages ==
    \/ DownloadImages
    \/ \E idx \in 1..MaxDownloads, outcome \in {"ok", "ConnectError"} :
           DownloadSingle(idx, outcome)
    \/ GatherReturn

SpecImages == InitImages /\ [][NextImages]_vars

\* ----------------------------------- process_auto_compose's three checks
\* A check that lets two images through.
too_few_below_two(n) == n < 2

\* Lines 161 and 206: `if len(...) < 3`.
too_few(n) == n < MinComposeImages

\* Line 175: min(12, max(6, len(unique_candidates))).
target_image_count(n) == Min({MaxComposeImages, Max({TargetComposeImages, n})})

\* Line 176: len(unique_candidates[:target_image_count]).
selected_count(n) == Min({n, target_image_count(n)})

\* One auto-compose job whose search found any number of distinct candidates,
\* of whose selected images any number passed the accessibility check, and
\* whose request has an audio_url or none.
InitCompose ==
    /\ \E redis \in BOOLEAN : Services(redis)
    /\ Unplanned
    /\ NoScript
    /\ NoDownload
    /\ NoImages
    /\ beat_times = {}
    /\ num_images = 0
    /\ target_duration = 0
    /\ cut_style = "medium"
    /\ cuts = None
    /\ unique_candidates \in 0..MaxCandidates
    /\ verified_images \in 0..selected_count(unique_candidates)
    /\ audio_url \in BOOLEAN
    /\ NoHandler
    /\ NoTemp

\* Lines 161-172 taken: the search found too few distinct candidates.
SearchTooFew(t) == too_few(unique_candidates) /\ ComposeTooFewFound(t)

\* Lines 161-172 passed.
SearchEnough(t) == ~too_few(unique_candidates) /\ ComposeFound(t)

\* Lines 206-216 taken: too few of the selected images are accessible.
VerifyTooFew(t) == too_few(verified_images) /\ ComposeTooFewVerified(t)

\* Lines 206-229 passed: the verified images become the render's images.
VerifyEnough(t) ==
    ~too_few(verified_images) /\ ComposeVerified(t, {verified_images})

\* Lines 280-291 taken: `if not request.audio_url`.
AudioMissing(t) == ~audio_url /\ ComposeNoAudio(t)

\* Lines 280-344 passed.
AudioGiven(t) == audio_url /\ ComposeRender(t)

CheckedStep(t) ==
    \/ WriteBack(t)
    \/ RenderStep(t)
    \/ RenderRaise(t, OneMessage, FirstAndLastStage(nimg[t]))
    \/ ComposeQueued(t)
    \/ AcquireSlot(t)
    \/ ComposeProcessing(t)
    \/ ComposeSearchRaise(t, OneMessage)
    \/ SearchTooFew(t)
    \/ SearchEnough(t)
    \/ VerifyTooFew(t)
    \/ VerifyEnough(t)
    \/ AudioMissing(t)
    \/ AudioGiven(t)
    \/ ComposeCompleted(t)
    \/ ComposeFailed(t)
    \/ ReleaseSlot(t)
    \/ NotifyQueued(t)
    \/ NotifyProcessing(t)
    \/ NotifyRejected(t)
    \/ NotifyFailed(t)
    \/ NotifyCompleted(t)

NextCompose ==
    \/ auto_compose(1, FreshId)
    \/ auto_compose_callback(1, FreshId)
    \/ \E j \in JobIds : cancel_job(j)
    \/ CheckedStep(1)

SpecCompose == InitCompose /\ [][NextCompose]_vars

\* ------------------------------------------------------- rp_handler.handler
\* handler runs run_async_render on a one-thread executor and waits for its
\* future for 600 s; the render thread runs VideoRenderer.render to its end.
\* No job, cut, plan, caption, transfer or auto-compose step.
OnlyHandler ==
    /\ UNCHANGED <<store, is_connected, sem_value, pc, path, jid, pending, rk, nimg,
                   polls, semaphore_acquired, exc, uploaded, upload_calls, subs, deletes,
                   beat_times, num_images, target_duration, cut_style, cuts,
                   vibe, audio_duration, requested, planned,
                   num_lines, video_duration, adjusted_lines,
                   download_vars, images_vars, compose_vars, temp_vars>>
    /\ NoHooks

InitHandler ==
    /\ Services(FALSE)
    /\ Unplanned
    /\ NoScript
    /\ NoDownload
    /\ NoImages
    /\ NoCompose
    /\ beat_times = {}
    /\ num_images = 0
    /\ target_duration = 0
    /\ cut_style = "medium"
    /\ cuts = None
    /\ use_gpu \in BOOLEAN
    /\ nvenc_available \in BOOLEAN
    /\ h_pc = "idle"
    /\ r_pc = "idle"
    /\ published = FALSE
    /\ handler_return = None
    /\ NoTemp

\* Line 121.
use_nvenc == use_gpu /\ nvenc_available

\* The render thread has ended: the future is done.
FutureDone == r_pc \in {"returned", "raised"}

\* The handler's step is private to the call.
HandlerKeeps == UNCHANGED <<use_gpu, nvenc_available, r_pc, published>>
\* The render thread's step.
ThreadKeeps == UNCHANGED <<use_gpu, nvenc_available, h_pc, handler_return>>

\* Lines 107-127: executor.submit starts the thread; future.result begins.
HandlerSubmit ==
    /\ h_pc = "idle"
    /\ h_pc' = "result"
    /\ r_pc' = "parse"
    /\ UNCHANGED <<use_gpu, nvenc_available, published, handler_return>>
    /\ OnlyHandler

\* run_async_render lines 59-87: RenderRequest(**job_input) validates ...
ThreadParsed ==
    /\ r_pc = "parse"
    /\ r_pc' = "stages"
    /\ UNCHANGED published
    /\ ThreadKeeps
    /\ OnlyHandler

\* ... or raises; render is not called.
ThreadInvalid ==
    /\ r_pc = "parse"
    /\ r_pc' = "raised"
    /\ UNCHANGED published
    /\ ThreadKeeps
    /\ OnlyHandler

\* render lines 64-354: the stages before the upload have run.
ThreadStages ==
    /\ r_pc = "stages"
    /\ r_pc' = "upload"
    /\ UNCHANGED published
    /\ ThreadKeeps
    /\ OnlyHandler

\* One of them raises: caught at line 369.
ThreadStageRaises ==
    /\ r_pc = "stages"
    /\ r_pc' = "except"
    /\ UNCHANGED published
    /\ ThreadKeeps
    /\ OnlyHandler

\* Lines 357-361: upload_file returns, the output is in the bucket.
ThreadUploaded ==
    /\ r_pc = "upload"
    /\ published' = TRUE
    /\ r_pc' = "cleanup"
    /\ ThreadKeeps
    /\ OnlyHandler

\* upload_file raises.
ThreadUploadRaises ==
    /\ r_pc = "upload"
    /\ r_pc' = "except"
    /\ UNCHANGED published
    /\ ThreadKeeps
    /\ OnlyHandler

\* Lines 364-367: cleanup returns, progress 100 is logged, render returns.
ThreadReturns ==
    /\ r_pc = "cleanup"
    /\ r_pc' = "returned"
    /\ UNCHANGED published
    /\ ThreadKeeps
    /\ OnlyHandler

\* Line 364: shutil.rmtree raises an OSError that is not a PermissionError,
\* which cleanup does not catch.
ThreadCleanupRaises ==
    /\ r_pc = "cleanup"
    /\ r_pc' = "except"
    /\ UNCHANGED published
    /\ ThreadKeeps
    /\ OnlyHandler

\* Lines 369-371: cleanup, then `raise e` (or cleanup's own exception); the
\* loop is closed and the exception is the future's.
ThreadRaises ==
    /\ r_pc = "except"
    /\ r_pc' = "raised"
    /\ UNCHANGED published
    /\ ThreadKeeps
    /\ OnlyHandler

\* Line 128: future.result(timeout=600) raises TimeoutError; the `with` block
\* is being left.
FutureTimeout ==
    /\ h_pc = "result"
    /\ ~FutureDone
    /\ h_pc' = "exit"
    /\ UNCHANGED handler_return
    /\ HandlerKeeps
    /\ OnlyHandler

\* Lines 128-139: the future has a result.
HandlerCompleted ==
    /\ h_pc = "result"
    /\ r_pc = "returned"
    /\ h_pc' = "done"
    /\ handler_return' = Some([status |-> "completed", output_url |-> Some(s3_url),
                               nvenc_used |-> Some(use_nvenc), error |-> None])
    /\ HandlerKeeps
    /\ OnlyHandler

\* Lines 150-163: the future has an exception; str(e) may be empty.
HandlerFailed ==
    /\ h_pc = "result"
    /\ r_pc = "raised"
    /\ h_pc' = "done"
    /\ \E m \in ExcMessages :
          handler_return' = Some([status |-> "failed", output_url |-> None,
                                  nvenc_used |-> None, error |-> Some(m)])
    /\ HandlerKeeps
    /\ OnlyHandler

\* Lines 141-148, once the `with` block has been left:
\* ThreadPoolExecutor.__exit__ is shutdown(wait=True), which joins the render
\* thread, on an exception too.
HandlerTimedOut ==
    /\ h_pc = "exit"
    /\ FutureDone
    /\ h_pc' = "done"
    /\ handler_return' = Some([status |-> "failed", output_url |-> None,
                               nvenc_used |-> None,
                               error |-> Some("Render timed out after 10 minutes")])
    /\ HandlerKeeps
    /\ OnlyHandler

NextHandler ==
    \/ HandlerSubmit
    \/ ThreadParsed
    \/ ThreadInvalid
    \/ ThreadStages
    \/ ThreadStageRaises
    \/ ThreadUploaded
    \/ ThreadUploadRaises
    \/ ThreadReturns
    \/ ThreadCleanupRaises
    \/ ThreadRaises
    \/ FutureTimeout
    \/ HandlerCompleted
    \/ HandlerFailed
    \/ HandlerTimedOut

SpecHandler == InitHandler /\ [][NextHandler]_vars

\* ------------------------------------------------------- TempFileManager
\* Renders running side by side in one process share TempFileManager.base_dir;
\* a render's directory is base_dir/job_id.  The stages of render run on the
\* event loop and in worker threads; cleanup is synchronous.
\* No job, cut, plan, caption, transfer, auto-compose or handler step.
OnlyTemp ==
    /\ UNCHANGED <<store, is_connected, sem_value, pc, path, jid, pending, rk, nimg,
                   polls, semaphore_acquired, exc, uploaded, upload_calls, subs, deletes,
                   beat_times, num_images, target_duration, cut_style, cuts,
                   vibe, audio_duration, requested, planned,
                   num_lines, video_duration, adjusted_lines,
                   download_vars, images_vars, compose_vars, handler_vars>>
    /\ NoHooks

InitTemp ==
    /\ Services(FALSE)
    /\ Unplanned
    /\ NoScript
    /\ NoDownload
    /\ NoImages
    /\ NoCompose
    /\ NoHandler
    /\ beat_times = {}
    /\ num_images = 0
    /\ target_duration = 0
    /\ cut_style = "medium"
    /\ cuts = None
    /\ render_pc = [r \in Renders |-> "idle"]
    /\ render_job_id \in [Renders -> DirIds]
    /\ job_dirs = [j \in DirIds |-> NoDir]

\* get_job_dir, lines 21-25: os.makedirs(job_dir, exist_ok=True).
get_job_dir(dirs, j) == [dirs EXCEPT ![j].exists = TRUE]

\* get_path followed by a write: the render's file is in the directory.
write_file(dirs, j, r) == [get_job_dir(dirs, j) EXCEPT ![j].files = @ \cup {r}]

\* What shutil.rmtree does within cleanup's five attempts: it removes the tree,
\* raises PermissionError every time, or raises another OSError.
RmtreeOutcomes == {"removed", "PermissionError", "OSError"}

\* cleanup, lines 32-52: nothing to do when the directory is missing;
\* otherwise rmtree(job_dir) removes whatever is in it, and after five
\* PermissionErrors the directory is left behind with a warning.
cleanup(dirs, j, outcome) ==
    IF ~dirs[j].exists \/ outcome # "removed" THEN dirs
    ELSE [dirs EXCEPT ![j] = NoDir]

\* Whether cleanup raises: only an error other than PermissionError gets out.
cleanup_raises(dirs, j, outcome) == dirs[j].exists /\ outcome = "OSError"

\* The render's files are where it wrote them.
HasFiles(r) == r \in job_dirs[render_job_id[r]].files

\* Lines 61-62: render begins.
RenderBegin(r) ==
    /\ render_pc[r] = "idle"
    /\ \A q \in Renders : q < r => render_pc[q] # "idle"
    /\ render_pc' = [render_pc EXCEPT ![r] = "download"]
    /\ job_dirs' = get_job_dir(job_dirs, render_job_id[r])
    /\ UNCHANGED render_job_id
    /\ OnlyTemp

\* Lines 64-150: images and audio are downloaded into the directory.
RenderDownloaded(r) ==
    /\ render_pc[r] = "download"
    /\ render_pc' = [render_pc EXCEPT ![r] = "assemble"]
    /\ job_dirs' = write_file(job_dirs, render_job_id[r], r)
    /\ UNCHANGED render_job_id
    /\ OnlyTemp

\* Lines 150-361: the files are read, the output is written beside them and
\* uploaded; a missing file raises.
RenderAssembled(r) ==
    /\ render_pc[r] = "assemble"
    /\ render_pc' = [render_pc EXCEPT ![r] = IF HasFiles(r) THEN "cleanup" ELSE "except"]
    /\ UNCHANGED <<render_job_id, job_dirs>>
    /\ OnlyTemp

\* A stage raises for another reason.
RenderStageRaises(r) ==
    /\ render_pc[r] \in {"download", "assemble"}
    /\ render_pc' = [render_pc EXCEPT ![r] = "except"]
    /\ UNCHANGED <<render_job_id, job_dirs>>
    /\ OnlyTemp

\* Lines 363-367: cleanup, then the return; a raising cleanup lands in the
\* except block.
RenderCleanup(r) ==
    /\ render_pc[r] = "cleanup"
    /\ \E outcome \in RmtreeOutcomes :
          /\ job_dirs' = cleanup(job_dirs, render_job_id[r], outcome)
          /\ render_pc' = [render_pc EXCEPT ![r] =
                              IF cleanup_raises(job_dirs, render_job_id[r], outcome)
                              THEN "except" ELSE "returned"]
    /\ UNCHANGED render_job_id
    /\ OnlyTemp

\* Lines 369-371: cleanup, then `raise e`, or cleanup's own exception.
RenderExcept(r) ==
    /\ render_pc[r] = "except"
    /\ \E outcome \in RmtreeOutcomes :
          job_dirs' = cleanup(job_dirs, render_job_id[r], outcome)
    /\ render_pc' = [render_pc EXCEPT ![r] = "raised"]
    /\ UNCHANGED render_job_id
    /\ OnlyTemp

NextTemp ==
    \E r \in Renders :
        \/ RenderBegin(r)
        \/ RenderDownloaded(r)
        \/ RenderAssembled(r)
        \/ RenderStageRaises(r)
        \/ RenderCleanup(r)
        \/ RenderExcept(r)

SpecTemp == InitTemp /\ [][NextTemp]_vars

\* ------------------------------------------------------------------ claims
Present(j) == store[j] # NoRec
Terminal(r) == r.status \in {"completed", "failed"}
\* The run has returned and its last store call with it.
Ended(t) == pc[t] = "done" /\ pending[t] = NoCall
\* The run is inside the assemble + encode phase of VideoRenderer.render: the
\* step "Creating image clips" has been reported, "Uploading to storage" not yet.
InRender(t) ==
    /\ pc[t] = "render"
    /\ rk[t] >= 7
    /\ rk[t] < Len(RenderProgress(nimg[t]))
\* The run holds a permit of the render semaphore.
Holds(t) == semaphore_acquired[t] /\ pc[t] # "done"
Holders == {t \in Runs : Holds(t)}

\* C1: at every moment at most max_concurrent_jobs jobs are inside the render
\* phase, whatever endpoint they were submitted through.
C1_RendersBounded ==
    Cardinality({t \in Runs : InRender(t)}) <= max_concurrent_jobs

\* C2: free permits plus permit holders equal the capacity in every reachable
\* state (a permit is released exactly once by the run that acquired it and
\* never by a run that did not), and all permits are free when no run is active.
C2_PermitsConserved ==
    /\ sem_value + Cardinality(Holders) = max_concurrent_jobs
    /\ (\A t \in Runs : pc[t] \in {"idle", "done"}) => sem_value = max_concurrent_jobs

\* C2 witness: one run ended without ever acquiring (the store failed before
\* the gate), another ended after acquiring and releasing.
C2_Witness ==
    \E t, u \in Runs :
        /\ pc[t] = "done" /\ path[t] = "compose" /\ ~semaphore_acquired[t]
        /\ pc[u] = "done" /\ path[u] = "compose" /\ semaphore_acquired[u]
        /\ Terminal(store[jid[u]])

\* C3 as claimed: once a stored record is completed or failed, no later write
\* (of any submission, run, callback) changes its status.
C3_TerminalAbsorbing ==
    [][\A j \in JobIds :
          (Present(j) /\ Terminal(store[j]) /\ store'[j] # NoRec)
              => store'[j].status = store[j].status]_vars

\* C3 amended: for a job id submitted once, once the stored record is completed
\* or failed no later write changes its status.
C3_TerminalAbsorbingOnce ==
    [][\A j \in JobIds :
          (subs'[j] = 1 /\ Present(j) /\ Terminal(store[j]) /\ store'[j] # NoRec)
              => store'[j].status = store[j].status]_vars

\* C3 witness: a job submitted once has ended with a terminal record while a
\* second job is still being worked on.
C3_Witness ==
    \E t, u \in Runs :
        /\ Ended(t) /\ subs[jid[t]] = 1 /\ Present(jid[t]) /\ Terminal(store[jid[t]])
        /\ pc[u] \notin {"idle", "done"}

\* C4: a record with a terminal status has exactly one of output_url and error.
C4_ExactlyOneOutcome ==
    \A j \in JobIds :
        (Present(j) /\ Terminal(store[j]))
            => ((store[j].output_url # None) # (store[j].error # None))

\* C5: a failed record carries a non-empty error.
C5_FailedHasError ==
    \A j \in JobIds :
        (Present(j) /\ store[j].status = "failed") => Truthy(store[j].error)

\* C6: a completed record carries a non-empty output_url, and the local
\* pipelines uploaded the output before marking it completed.
C6_CompletedHasOutput ==
    \A t \in Runs :
        (pc[t] # "idle" /\ Present(jid[t]) /\ store[jid[t]].status = "completed")
            => /\ Truthy(store[jid[t]].output_url)
               /\ path[t] \in {"render", "compose"} => t \in uploaded

\* C7: once a run has ended and its record has not been deleted, the record is
\* completed or failed.
C7_EndedIsTerminal ==
    \A t \in Runs : (Ended(t) /\ Present(jid[t])) => Terminal(store[jid[t]])

\* C8: while a record's status is processing, the progress written to it never
\* decreases.
C8_ProgressMonotone ==
    [][\A j \in JobIds :
          (/\ Present(j) /\ store'[j] # NoRec
           /\ store[j].status = "processing" /\ store'[j].status = "processing")
              => store'[j].progress >= store[j].progress]_vars

\* C8 witness: the remote loop has used its last poll, the estimate of that
\* poll (5 + 199 * 85 div 200) is in the record of a job still processing.
C8_Witness ==
    /\ path[1] = "modal" /\ polls[1] = max_polls /\ pending[1] = NoCall
    /\ Present(jid[1]) /\ store[jid[1]].status = "processing"
    /\ store[jid[1]].progress = 5 + (((max_polls - 1) * 85) \div max_polls)

\* C9: a deleted record stays absent until a new create_job: no update_job of
\* in-flight work recreates it.
C9_DeletedStaysAbsent ==
    [][\A j \in JobIds :
          (store[j] = NoRec /\ store'[j] # NoRec) => subs'[j] = subs[j] + 1]_vars

\* C10: on the gated path a record is processing only while its run holds a
\* permit, a run waiting for a permit is reported queued, and never more than
\* max_concurrent_jobs gated jobs are processing (with capacity 2 and 3 jobs,
\* one stays queued until a permit is released).
C10_QueuedUntilAdmitted ==
    /\ \A t \in Runs :
          path[t] = "compose" =>
             /\ (Present(jid[t]) /\ store[jid[t]].status = "processing") => Holds(t)
             /\ (pc[t] = "c_acquire" /\ Present(jid[t]))
                   => store[jid[t]].status = "queued"
    /\ Cardinality({t \in Runs : path[t] = "compose" /\ Present(jid[t])
                                   /\ store[jid[t]].status = "processing"})
          <= max_concurrent_jobs

\* C10 witness: every permit is taken by a processing job and one more job
\* waits at the gate, reported queued.
C10_Witness ==
    /\ sem_value = 0
    /\ Cardinality({t \in Runs : Holds(t) /\ store[jid[t]].status = "processing"})
          = max_concurrent_jobs
    /\ \E t \in Runs : pc[t] = "c_acquire" /\ store[jid[t]].status = "queued"

\* C11: a job waiting at the gate is never marked failed for waiting, and, the
\* admitted jobs finishing, every waiting job is eventually admitted.
C11_NoStarvation ==
    /\ [](\A t \in Runs :
            (pc[t] = "c_acquire" /\ Present(jid[t]))
                => store[jid[t]].status = "queued")
    /\ \A t \in Runs : (pc[t] = "c_acquire") ~> semaphore_acquired[t]

\* C11 witness: with one permit, all three jobs have been admitted and have
\* ended, so two of them waited while another held the permit.
C11_Witness ==
    \A t \in Runs : path[t] = "compose" /\ semaphore_acquired[t] /\ pc[t] = "done"

\* C12: process_modal_render_job terminates; it never polls more than max_polls
\* times, and when the loop runs out the record (if it still exists) ends
\* failed with error "Modal render timed out".
C12_PollingTerminates ==
    /\ [](\A t \in Runs : polls[t] <= max_polls)
    /\ [](\A t \in Runs :
            (path[t] = "modal" /\ Ended(t) /\ polls[t] = max_polls /\ Present(jid[t]))
                => /\ store[jid[t]].status = "failed"
                   /\ store[jid[t]].error = Some("Modal render timed out"))
    /\ \A t \in Runs : (path[t] = "modal") ~> Ended(t)

\* C12 witness: the run has ended after max_polls unanswered polls and its
\* record says so.
C12_Witness ==
    /\ path[1] = "modal" /\ Ended(1) /\ polls[1] = max_polls /\ Present(jid[1])
    /\ store[jid[1]].error = Some("Modal render timed out")

\* The run has issued, or the store holds, a write of status failed.
FailedReported(t) ==
    \/ pending[t] # NoCall /\ pending[t].job_data.status = "failed"
    \/ Present(jid[t]) /\ store[jid[t]].status = "failed"

\* C13: on the remote path a failed submit or a failed/error poll ends the job
\* at once: after the failed write the run is over, it polls and submits no
\* more, and a run that is over stays over.
C13_FailureEndsJob ==
    /\ [](\A t \in Runs : (path[t] = "modal" /\ FailedReported(t)) => pc[t] = "done")
    /\ [][\A t \in Runs :
             (path[t] = "modal" /\ pc[t] = "done")
                 => (pc'[t] = "done" /\ polls'[t] = polls[t])]_vars

\* C13 witness: a poll was answered with failure after one unanswered poll and
\* the run has ended with the backend's error in the record.
C13_Witness ==
    /\ path[1] = "modal" /\ Ended(1) /\ polls[1] = 1 /\ Present(jid[1])
    /\ store[jid[1]].error = Some("backend error")

\* C14: a create_job on an existing job id replaces the whole record: status
\* queued, progress 0, step "Queued", the new request's data, and no
\* output_url, error or metadata of the earlier submission.
C14_CreateReplaces ==
    [][\A j \in JobIds :
          subs'[j] = subs[j] + 1
              => /\ store'[j] = create_job_record(subs'[j])
                 /\ store'[j].output_url = None /\ store'[j].error = None
                 /\ store'[j].metadata = None]_vars

\* C14 witness: a job id was submitted a second time after its first run had
\* ended, and the record is the fresh one of the second request.
C14_Witness ==
    \E t, u \in Runs :
        /\ t # u /\ jid[t] = jid[u] /\ Ended(t) /\ pc[u] = "start"
        /\ subs[jid[u]] = 2 /\ store[jid[u]] = create_job_record(2)

\* The statuses of the notifications run t has sent, in order.
HookStatus(t) == [i \in 1..Len(hooks[t]) |-> hooks[t][i].status]
HookRank(status) ==
    CASE status = "queued" -> 1 [] status = "processing" -> 2 [] OTHER -> 3

\* C15: a webhook delivery, failed or not, changes no job record and no permit;
\* a job whose output was uploaded ends completed whatever became of its
\* deliveries; the pipeline runs to its end and the permit is released.
C15_HooksHarmless ==
    /\ [][\A t \in Runs :
             hooks'[t] # hooks[t]
                 => (store' = store /\ pending' = pending /\ sem_value' = sem_value)]_vars
    /\ [](\A t \in Runs :
            (callback_url[t] /\ Ended(t) /\ t \in uploaded /\ Present(jid[t]))
                => store[jid[t]].status = "completed")
    /\ []((\A t \in Runs : pc[t] \in {"idle", "done"})
            => sem_value = max_concurrent_jobs)
    /\ \A t \in Runs : callback_url[t] ~> Ended(t)

\* C15 witness: all three deliveries of a job failed, and the job has ended
\* completed with its permit released.
C15_Witness ==
    /\ Ended(1) /\ Len(hooks[1]) = 3 /\ sem_value = max_concurrent_jobs
    /\ \A i \in 1..3 : hooks[1][i].outcome # "ok"
    /\ Present(jid[1]) /\ store[jid[1]].status = "completed"

\* C16: the notifications of a run are sent in the order queued, processing,
\* terminal, each at most once; a run that has ended has sent exactly one
\* terminal notification; and a notification follows the store write of its
\* status (the record, if it exists, has that status when the run moves on).
C16_HooksInOrder ==
    \A t \in Runs :
        callback_url[t] =>
            /\ \A i, k \in 1..Len(hooks[t]) :
                   i < k => HookRank(HookStatus(t)[i]) < HookRank(HookStatus(t)[k])
            /\ pc[t] = "done"
                   => /\ Len(hooks[t]) >= 1
                      /\ HookRank(HookStatus(t)[Len(hooks[t])]) = 3
            /\ (pc[t] \in {"c_acquire", "c_search", "c_release"} /\ Len(hooks[t]) >= 1
                 /\ pending[t] = NoCall /\ Present(jid[t])
                 /\ ~(pc[t] = "c_release" /\ HookRank(HookStatus(t)[Len(hooks[t])]) < 3))
                   => store[jid[t]].status = HookStatus(t)[Len(hooks[t])]

Cut == cuts # None /\ num_images > 0
\* The call took the beat-aligned path, not the even distribution.
BeatAligned ==
    /\ beat_times # {}
    /\ Cardinality(valid_beats(beat_times, target_duration)) >= num_images + 1
\* The cut points of the returned segments: every start, then the last end.
Points == [k \in 1..(num_images + 1) |->
              IF k <= num_images THEN cuts[1][k][1] ELSE cuts[1][num_images][2]]

\* C18: for every beat list, image_count > 0, target_duration and pacing style,
\* calculate_cuts returns exactly image_count segments, the first starting at 0,
\* the last ending at target_duration, each ending where the next one starts.
C18_Contiguous ==
    Cut => /\ Len(cuts[1]) = num_images
           /\ cuts[1][1][1] = 0
           /\ cuts[1][num_images][2] = Nths(target_duration, num_images)
           /\ \A k \in 1..(num_images - 1) : cuts[1][k][2] = cuts[1][k + 1][1]

\* A beat-aligned result for three images whose interior cuts are beats.
C18_Witness ==
    /\ Cut /\ BeatAligned /\ num_images = 3 /\ cut_style = "slow"
    /\ target_duration > num_images * MIN_IMAGE_DURATION
    /\ \A k \in 2..3 : \E b \in beat_times : Points[k] = Nths(b, num_images)

\* C19: for every input with image_count > 0 and target_duration > 0, also one
\* with target_duration < image_count * MIN_IMAGE_DURATION, the cut points are
\* non-decreasing and lie in [0, target_duration]: every segment has
\* start <= end and no two segments overlap.
C19_CutsOrdered ==
    (Cut /\ target_duration > 0)
        => /\ \A k \in 1..num_images : Points[k] <= Points[k + 1]
           /\ \A k \in 1..(num_images + 1) :
                  0 <= Points[k] /\ Points[k] <= Nths(target_duration, num_images)

\* C20: whenever target_duration >= image_count * MIN_IMAGE_DURATION, every
\* segment calculate_cuts returns (beat-aligned, cut at a constraint boundary,
\* or of the even distribution, and the last one too) lasts at least
\* MIN_IMAGE_DURATION, for every beat list and pacing style.
C20_MinDuration ==
    (Cut /\ target_duration >= num_images * MIN_IMAGE_DURATION)
        => \A k \in 1..num_images :
              Points[k + 1] - Points[k] >= Nths(MIN_IMAGE_DURATION, num_images)

\* A beat-aligned result with room for every image in which one interior cut
\* is on a beat and another, with no beat in reach, is at a constraint boundary.
C20_Witness ==
    /\ Cut /\ BeatAligned /\ num_images = 3
    /\ target_duration >= num_images * MIN_IMAGE_DURATION
    /\ \E k \in 2..3 : \E b \in beat_times : Points[k] = Nths(b, num_images)
    /\ \E k \in 2..3 : \A b \in beat_times : Points[k] # Nths(b, num_images)

\* The cut points calculate_cuts returns for the same beats, images and
\* duration with another cut_style.
StylePoints(style) ==
    LET c == calculate_cuts(beat_times, num_images, target_duration, style)
    IN  [k \in 1..(num_images + 1) |->
            IF k <= num_images THEN c[k][1] ELSE c[num_images][2]]

\* C21: for identical beats, target_duration and image_count, at every interior
\* cut index the cut point chosen with "fast" is <= the one chosen with
\* "medium", which is <= the one chosen with "slow".
C21_PacingOrder ==
    Cut => \A k \in 2..num_images :
              /\ cut_style = "fast" => Points[k] <= StylePoints("medium")[k]
              /\ cut_style = "medium" => /\ StylePoints("fast")[k] <= Points[k]
                                         /\ Points[k] <= StylePoints("slow")[k]
              /\ cut_style = "slow" => StylePoints("medium")[k] <= Points[k]

\* A beat-aligned "medium" result for three images, with room for each, that
\* is later than the "fast" result at an interior cut.
C21_Witness ==
    /\ Cut /\ BeatAligned /\ cut_style = "medium" /\ num_images = 3
    /\ target_duration >= num_images * MIN_IMAGE_DURATION
    /\ \E k \in 2..3 : StylePoints("fast")[k] < Points[k]

\* The call falls back to the even distribution: no beat at all, or fewer than
\* image_count + 1 distinct values among 0, the beats strictly inside
\* (0, target_duration) and target_duration.
TooFewBeats ==
    \/ beat_times = {}
    \/ Cardinality({0, target_duration}
                    \cup {b \in beat_times : 0 < b /\ b < target_duration})
           < num_images + 1

\* C22: when beat_times is empty or too few distinct beats are left,
\* calculate_cuts returns exactly the even segmentation, whose boundaries are
\* i * target_duration / image_count.
C22_EvenFallback ==
    (Cut /\ TooFewBeats)
        => /\ Len(cuts[1]) = num_images
           /\ \A k \in 1..num_images :
                  cuts[1][k] = <<(k - 1) * target_duration, k * target_duration>>

\* No beats, 4 images, 12 s: (0,3), (3,6), (6,9), (9,12), in quarters of a second.
C22_Witness ==
    /\ Cut /\ beat_times = {} /\ num_images = 4 /\ target_duration = 12
    /\ cuts[1] = <<<<0, 12>>, <<12, 24>>, <<24, 36>>, <<36, 48>>>>

\* Every ideal boundary i * target_duration / image_count, 0 < i < image_count,
\* is a supplied beat.
IdealBeats ==
    \A i \in 1..(num_images - 1) :
        \E b \in beat_times : Nths(b, num_images) = i * target_duration

\* C23: if every ideal boundary is itself a supplied beat and
\* target_duration / image_count >= MIN_IMAGE_DURATION, calculate_cuts returns
\* exactly the ideal boundaries as cut points, whatever other beats are
\* supplied.
C23_IdealBeatsChosen ==
    (Cut /\ IdealBeats /\ target_duration >= num_images * MIN_IMAGE_DURATION)
        => \A k \in 1..(num_images + 1) : Points[k] = (k - 1) * target_duration

\* 5 images, beats 1..29, 15 s, "medium": cuts at 3, 6, 9 and 12 s, in fifths of
\* a second.
C23_Witness ==
    /\ Cut /\ beat_times = 1..29 /\ num_images = 5 /\ target_duration = 15
    /\ cut_style = "medium"
    /\ cuts[1] = <<<<0, 15>>, <<15, 30>>, <<30, 45>>, <<45, 60>>, <<60, 75>>>>

\* The beats strictly inside (0, target_duration).
InsideBeats == {b \in beat_times : 0 < b /\ b < target_duration}

\* C24: the result of calculate_cuts depends only on the beats strictly inside
\* (0, target_duration): it is the result for those beats alone, so adding or
\* removing beats <= 0 or >= target_duration, also when that makes the list
\* empty or non-empty, never changes the segments.
C24_OutsideBeatsIgnored ==
    Cut => cuts[1] = calculate_cuts(InsideBeats, num_images, target_duration,
                                    cut_style)

\* A call for three images with two beats inside and a beat outside that takes
\* the beat-aligned path and does not return the even segmentation.
C24_Witness ==
    /\ Cut /\ BeatAligned /\ num_images = 3
    /\ target_duration >= num_images * MIN_IMAGE_DURATION
    /\ Cardinality(InsideBeats) = 2
    /\ beat_times # InsideBeats
    /\ cuts[1] # even_distribution(num_images, target_duration)

\* C25: for every preset, image_count >= 1, audio_duration >= 0 and requested
\* duration, the planned target duration lies in [0, audio_duration] and is
\* >= min(image_count * MIN_IMAGE_DURATION, audio_duration).
C25_PlanWithinAudio ==
    planned => /\ 0 <= target_duration
               /\ target_duration <= audio_duration
               /\ target_duration >= Min({num_images * MIN_IMAGE_DURATION,
                                          audio_duration})

\* A plan whose clamp to the preset's max_duration left too little for the
\* images and that the final check raised again, with audio to spare.
C25_Witness ==
    /\ planned
    /\ forced_floor(get_preset(vibe), num_images, audio_duration, requested)
    /\ target_duration = num_images * MIN_IMAGE_DURATION
    /\ target_duration < audio_duration

\* The range of the preset of the render.
min_duration == get_preset(vibe).duration_range[1]
max_duration == get_preset(vibe).duration_range[2]
\* The final check of line 128 fired for the render.
Forced == forced_floor(get_preset(vibe), num_images, audio_duration, requested)

\* C26: whenever the planned target duration is below the preset's
\* min_duration or above its max_duration, the forced-floor branch was taken;
\* no other rule produces a duration outside the preset's range.
C26_OnlyForcedFloor ==
    (planned /\ (target_duration < min_duration \/ target_duration > max_duration))
        => Forced

\* C26, amended: a planned duration above max_duration comes only from the
\* forced-floor branch; one below min_duration comes from that branch, from an
\* audio track shorter than min_duration, or from a positive requested
\* duration below min_duration.
C26_OutsideRangeCauses ==
    planned =>
        /\ target_duration > max_duration => Forced
        /\ target_duration < min_duration
              => \/ Forced
                 \/ audio_duration < min_duration
                 \/ (requested > 0 /\ requested < min_duration)

\* A plan below min_duration without the forced floor and with audio enough:
\* the caller asked for less.
C26_Witness ==
    /\ planned /\ ~Forced
    /\ target_duration < min_duration
    /\ audio_duration >= min_duration
    /\ target_duration = requested

C28_RequestBelowFloor ==
    (planned /\ requested > 0 /\ requested < num_images * MIN_IMAGE_DURATION)
        => target_duration = Min({num_images * MIN_IMAGE_DURATION, audio_duration})

\* 6 images with 10 s requested and a longer audio track: 12 s.
C28_Witness ==
    /\ planned /\ num_images = 6 /\ requested = 10
    /\ audio_duration > 12
    /\ target_duration = 12

\* _adjust_script_timings has returned.
Adjusted == adjusted_lines # None
\* The lines it returned, and the end of the i-th.
Lines == adjusted_lines[1]
EndOf(i) == Lines[i].timing + Lines[i].duration

\* C29: for any list of caption lines and any video duration, the lines
\* returned satisfy timing[i] + duration[i] <= timing[i+1] for every adjacent
\* pair, and no more lines are returned than were supplied.
C29_NoOverlap ==
    Adjusted => /\ Len(Lines) <= num_lines
                /\ \A i \in 1..(Len(Lines) - 1) : EndOf(i) <= Lines[i + 1].timing

\* Several lines returned with the gap reduced, and a line dropped.
C29_Witness ==
    /\ Adjusted
    /\ Len(Lines) >= 3
    /\ Len(Lines) < num_lines
    /\ not_enough_time(num_lines, video_duration)

\* The gap after the i-th returned line: next start minus previous end.
GapAfter(i) == Lines[i + 1].timing - EndOf(i)
Gaps == {GapAfter(i) : i \in 1..(Len(Lines) - 1)}

\* C30: for N > 1 caption lines the gap between consecutive returned lines
\* equals 0.5 s whenever the clamped even share times N plus the N - 1 gaps
\* fits in the available window, and otherwise is reduced but never below
\* 0.2 s; for 3 lines in a 9 s video every gap is >= 0.5 s.
C30_GapRule ==
    (Adjusted /\ num_lines > 1) =>
        /\ \A g \in Gaps :
              IF share_overruns(num_lines, video_duration)
              THEN Tenths(2, num_lines) <= g /\ g < Tenths(SUBTITLE_GAP, num_lines)
              ELSE g = Tenths(SUBTITLE_GAP, num_lines)
        /\ (num_lines = 3 /\ video_duration = 90) =>
              \A g \in Gaps : g >= Tenths(SUBTITLE_GAP, num_lines)

\* The i-th returned line was shortened at line 494: it ends 0.3 s before the
\* end of the video and is shorter than duration_per_subtitle.
Truncated(i) ==
    /\ EndOf(i) = Tenths(video_duration - 3, num_lines)
    /\ Lines[i].duration < duration_per_subtitle(num_lines, video_duration)

\* Where the line after the last returned one would start (lines 485, 506).
NextStart ==
    IF Len(Lines) = 0 THEN Tenths(3, num_lines)
    ELSE EndOf(Len(Lines)) + subtitle_gap(num_lines, video_duration)

\* C31: for N > 1 caption lines every returned line has a duration in
\* [MIN_SUBTITLE_DURATION, MAX_SUBTITLE_DURATION] = [1.5, 4.0] unless it was
\* truncated at the trailing margin, in which case its duration is at least
\* 1.0 s; a line whose truncated duration would be below 1.0 s is dropped
\* rather than returned (and a line is dropped for no other reason).
C31_DurationsClamped ==
    (Adjusted /\ num_lines > 1) =>
        /\ \A i \in 1..Len(Lines) :
              \/ /\ Lines[i].duration >= Tenths(MIN_SUBTITLE_DURATION, num_lines)
                 /\ Lines[i].duration <= Tenths(MAX_SUBTITLE_DURATION, num_lines)
              \/ /\ Truncated(i)
                 /\ Lines[i].duration >= Tenths(10, num_lines)
        /\ Len(Lines) < num_lines =>
              /\ exceeds_video(NextStart, num_lines, video_duration)
              /\ Tenths(video_duration - 3, num_lines) - NextStart
                     <= Tenths(10, num_lines)
              /\ Tenths(video_duration - 3, num_lines) - NextStart
                     = Tenths(10, num_lines)
                   => <<num_lines, video_duration>> \in RoundsBelow

\* A truncated line shorter than MIN_SUBTITLE_DURATION is returned and the
\* line after it is dropped.
C31_Witness ==
    /\ Adjusted
    /\ num_lines > 1
    /\ Len(Lines) >= 1
    /\ Len(Lines) < num_lines
    /\ Truncated(Len(Lines))
    /\ Lines[Len(Lines)].duration < Tenths(MIN_SUBTITLE_DURATION, num_lines)

\* The attempts of the call of download_file so far, and its sleeps.
IsAttempt(x) == x.ev = "attempt"
IsSleep(x) == x.ev = "sleep"
Attempts == SelectSeq(dl_trace, IsAttempt)
Sleeps == SelectSeq(dl_trace, IsSleep)

\* C32: download_file makes at most MAX_RETRIES (3) attempts per call, returns
\* on the first successful attempt without further attempts, waits
\* RETRY_DELAY * 2^attempt (1 s, then 2 s) only between attempts and not after
\* the last one, and after three failures raises the error of the last attempt.
C32_BoundedRetries ==
    /\ Len(Attempts) <= MAX_RETRIES
    /\ \A i \in 1..Len(Attempts) : Attempts[i].attempt = i - 1
    /\ \A i \in 1..Len(dl_trace) :
          /\ (IsAttempt(dl_trace[i]) /\ dl_trace[i].outcome = "ok") =>
                i = Len(dl_trace) /\ dl_pc = "returned"
          /\ IsSleep(dl_trace[i]) =>
                /\ i > 1
                /\ IsAttempt(dl_trace[i - 1])
                /\ dl_trace[i - 1].outcome # "ok"
                /\ dl_trace[i - 1].attempt < MAX_RETRIES - 1
                /\ dl_trace[i].delay = RETRY_DELAY * 2 ^ dl_trace[i - 1].attempt
                /\ dl_pc # "try" => i < Len(dl_trace)
          /\ (IsAttempt(dl_trace[i]) /\ i > 1) => IsSleep(dl_trace[i - 1])
    /\ \A i \in 1..Len(Sleeps) : Sleeps[i].delay = <<1, 2>>[i]
    /\ dl_pc = "returned" =>
          /\ dl_trace # <<>>
          /\ dl_trace[Len(dl_trace)].outcome = "ok"
    /\ dl_pc = "raised" =>
          /\ Len(Attempts) = MAX_RETRIES
          /\ \A i \in 1..MAX_RETRIES : Attempts[i].outcome # "ok"
          /\ raised_error(last_error) = Attempts[MAX_RETRIES].outcome

\* Three attempts failed with different errors, the call slept 1 s and 2 s
\* and raised.
C32_Witness ==
    /\ dl_pc = "raised"
    /\ Len(Attempts) = 3
    /\ Len(Sleeps) = 2
    /\ Attempts[2].outcome # Attempts[3].outcome

\* Run t's render raised out of its last stage: S3Client.upload_file raised
\* and render re-raised (lines 357-361, 369-371).
UploadRaised(t) ==
    /\ path[t] \in {"render", "sync", "compose"}
    /\ pc[t] \notin {"idle", "render"}
    /\ rk[t] = Len(RenderProgress(nimg[t]))
    /\ t \notin uploaded
    /\ exc[t] # None

\* C33: a failure while publishing the rendered output to storage is retried
\* by the pipeline a bounded number of times with backoff before the job is
\* marked failed, just as acquisition failures are; a single failed upload
\* attempt does not by itself fail the job.
C33_UploadRetried ==
    \A t \in Runs :
        (/\ UploadRaised(t)
         /\ Present(jid[t])
         /\ store[jid[t]].status = "failed") => upload_calls[t] > 1

\* The paths _download_images returned.
Paths == image_paths[1].returned
SomeDownloadFailed == \E idx \in 1..Len(results) : IsException(results[idx])

\* C34: for any order in which the parallel image downloads of one job
\* complete, _download_images returns the local paths in ascending order of
\* the images' order field (the i-th path is the image of i-th smallest order,
\* each image once), and it returns paths only if every download succeeded:
\* any failed download raises.
C34_PathsByOrder ==
    /\ img_pc = "returned" =>
          /\ ~SomeDownloadFailed
          /\ Len(Paths) = Len(images)
          /\ \A i, j \in 1..Len(Paths) :
                /\ i < j => images[Paths[i].holds] <= images[Paths[j].holds]
                /\ i # j => Paths[i].holds # Paths[j].holds
    /\ img_pc = "raised" =>
          /\ SomeDownloadFailed
          /\ \E idx \in 1..Len(results) :
                /\ IsException(results[idx])
                /\ image_paths[1].raised = results[idx].error
    /\ (img_pc \in {"returned", "raised"} /\ SomeDownloadFailed) => img_pc = "raised"

\* Three images whose order fields run against their places in the request,
\* downloaded in yet another order; the paths come back by order field.
C34_Witness ==
    /\ img_pc = "returned"
    /\ images = <<3, 2, 1>>
    /\ completed = <<2, 3, 1>>
    /\ Paths[1].holds = 3

\* The interior cut points are Points[2] .. Points[num_images]; Points[k] is
\* cut i = k - 1 of the loop.  The supplied beats, in the unit of the points:
SuppliedBeats == {Nths(b, num_images) : b \in beat_times}
\* The supplied beats that qualify for the cut at Points[k]: inside the video,
\* at least MIN_IMAGE_DURATION after the previous cut and leaving
\* MIN_IMAGE_DURATION for each image still to come.
Qualifying(k) ==
    {b \in SuppliedBeats :
        /\ 0 < b /\ b < Nths(target_duration, num_images)
        /\ Points[k - 1] + Nths(MIN_IMAGE_DURATION, num_images) <= b
        /\ b <= Nths(target_duration - (num_images - (k - 1)) * MIN_IMAGE_DURATION,
                     num_images)}

ChecksPassed ==
    /\ unique_candidates >= 3
    /\ verified_images >= 3
    /\ audio_url

C37_FullProgressCompleted ==
    \A j \in JobIds :
        (Present(j) /\ store[j].progress = 100) =>
            /\ store[j].status = "completed"
            /\ store[j].output_url # None

\* C38: for any number of input lines and any video_duration > 0, every line
\* returned by _adjust_script_timings has a strictly positive duration, starts
\* at or after 0 and ends at or before video_duration.
C38_LinesInsideVideo ==
    (Adjusted /\ video_duration > 0) =>
        \A i \in 1..Len(Lines) :
            /\ Lines[i].duration > 0
            /\ Lines[i].timing >= 0
            /\ EndOf(i) <= Tenths(video_duration, num_lines)

\* C39: whenever the RunPod handler has returned a result with status failed,
\* the timeout result included, no output video has been uploaded for the job
\* and none is uploaded afterwards.
C39_FailedNeverPublished ==
    /\ []((handler_return # None /\ handler_return[1].status = "failed")
             => ~published)
    /\ [][(handler_return # None /\ handler_return[1].status = "failed")
             => published' = published]_vars

\* The render has left render, by return or by exception.
Exited(r) == render_pc[r] \in {"returned", "raised"}

\* C40: a render's job directory is gone when the render exits, by return or
\* by exception, and no cleanup removes the files of another render that is
\* still running, even when two renders carry the same job id.
C40_CleanupIsolated ==
    /\ [][\A r \in Renders :
             (Exited(r)' /\ ~Exited(r)) => ~job_dirs'[render_job_id[r]].exists]_vars
    /\ [][\A r, q \in Renders :
             (r # q /\ render_pc[q] = "assemble" /\ HasFiles(q)
                    /\ render_pc[r] \in {"cleanup", "except"} /\ Exited(r)')
                 => HasFiles(q)']_vars
====
